---- MODULE Spec2Model ----
(***************************************************************************)
(* Replay of a recorded adapter trace (trustfall_core interpreter/replay). *)
(*                                                                         *)
(* The replay adapter and every iterator it hands out read one shared      *)
(* cursor over trace.ops (`next_op`, advanced only by advance_ref_iter).   *)
(* The trace is an input that is read strictly forward, one op at a time,  *)
(* so the model reveals each op at the moment the cursor reaches it and    *)
(* keeps of it what its reader took: `next_op` counts the ops the cursor   *)
(* has passed, `last` holds the ops the latest handler read and matched,   *)
(* `hist` what each iterator has pulled and yielded.  The opid of an op is *)
(* its position in the trace (trace.ops is ordered by opid and only        *)
(* equality of opids is ever tested).  expected_results is read through    *)
(* expected_iter in the same way, and revealed in the same way; so is the  *)
(* complete flag, which is read once, when expected_iter is exhausted.     *)
(*                                                                         *)
(* The interpreter (interpret_ir) is the environment of the adapter: it    *)
(* makes adapter calls, pulls the iterators it was handed and answers the  *)
(* `contexts.next()` calls of the adapter's iterators, in any order.       *)
(***************************************************************************)
EXTENDS Integers, Sequences, FiniteSets, TLC

\* Longest trace considered: the cursor finds no op after MaxTrace ops.
MaxTrace == 5
\* Longest trace considered when the interpreter makes a single adapter call.
MaxStreamTrace == 8
\* Longest expected_results slice considered.
MaxRows == 2
\* Most adapter calls the interpreter makes.
MaxCalls == 2

None == "None"

Contexts == {"c1", "c2"}
Vertices == {"v1"}
FieldValues == {"x"}
Rows == {"r1", "r2"}
Vids == {1, 2}
Eids == {1}
TypeNames == {"A", "B"}
Names == {"p", "q"}
NeighborIndices == 0 .. 2


Opt(S) == S \cup {None}

\* TraceOpContent::Call(FunctionCall::...).  The recorded calls considered name
\* one Vid, type, name and Eid; the interpreter's arguments (CallArgs) range
\* over two of each, so every argument can agree or differ.
CallContents ==
    [tag : {"Call"}, fn : {"ResolveStartingVertices"}, vid : {1}]
    \cup [tag : {"Call"}, fn : {"ResolveProperty"}, vid : {1},
          type_name : {"A"}, name : {"p"}]
    \cup [tag : {"Call"}, fn : {"ResolveNeighbors"}, vid : {1},
          type_name : {"A"}, eid : {1}]
    \cup [tag : {"Call"}, fn : {"ResolveCoercion"}, vid : {1},
          type_name : {"A"}, name : {"p"}]

\* TraceOpContent::YieldFrom(YieldValue::...)
YieldContents ==
    [tag : {"YieldFrom"}, yv : {"ResolveStartingVertices"}, vertex : Vertices]
    \cup [tag : {"YieldFrom"}, yv : {"ResolveProperty"}, context : Contexts,
          value : FieldValues]
    \cup [tag : {"YieldFrom"}, yv : {"ResolveCoercion"}, context : Contexts,
          can_coerce : BOOLEAN]
    \cup [tag : {"YieldFrom"}, yv : {"ResolveNeighborsOuter"}, context : Contexts]
    \cup [tag : {"YieldFrom"}, yv : {"ResolveNeighborsInner"},
          index : NeighborIndices, vertex : Vertices]

\* The contents a reader can find under the cursor.
IterContents ==
    CallContents
    \cup YieldContents
    \cup [tag : {"AdvanceInputIterator", "InputIteratorExhausted",
                 "OutputIteratorExhausted"}]
    \cup [tag : {"YieldInto"}, context : Contexts]
    \cup [tag : {"ProduceQueryResult"}, row : Rows]

\* What the interpreter passes to an adapter call: query_info.origin_vid(),
\* query_info.origin_crossing_eid() (0 for None), type_name and the second name
\* (property_name or coerce_to_type).
CallArgs ==
    [vid : Vids, crossing_eid : {0} \cup Eids, type_name : TypeNames, name : Names]

VARIABLES
    trace_bound,        \* the longest trace this behaviour considers
    complete,           \* the complete flag, None until the loop reads it
    expected_results,   \* the rows expected_iter has handed out so far
    expected_pos,       \* rows of expected_results matched so far
    trace_rows,         \* what trace_iter.next() returned so far (history)
    next_op,            \* the shared cursor: number of ops it has passed
    iters,              \* the iterators returned by the four adapter calls
    neighbors,          \* the TraceReaderNeighborIter of each outer yield
    stack,              \* iterators inside next(), waiting for contexts.next()
    pc,                 \* "running": inside interpret_ir() or trace_iter.next()
    fatal,              \* the assertion that aborted the replay, "" if none
    last,               \* the latest handler: who ran and the ops it matched
    hist,               \* per iterator: its call, its pulls and its yields (history)
    vertex_info,        \* the VertexInfo view an adapter holds (hints)
    hint                \* the latest hint call made on the view and its result

vars == <<trace_bound, complete, expected_results, expected_pos, trace_rows, next_op, iters,
          neighbors, stack, pc, fatal, last, hist, vertex_info, hint>>

Empty == [x \in {} |-> None]

\* `last` at the start of a handler run by `who` on iterator `it` (0: none);
\* `ret` is <<x>> once the handler returned Some(x) to the interpreter,
\* `after` is the opid of the AdvanceInputIterator op a contexts.next() serves,
\* `parent_opid` that of the op advance_ref_iter returned last, `first` the
\* number of ops the cursor had passed when the handler started.
Handler(who, it) ==
    [who |-> who, it |-> it, ops |-> <<>>, input |-> None, ret |-> <<>>,
     after |-> 0, parent_opid |-> 0, first |-> 0]

\* parent_opid of a trace op: 0 stands for Option::None.
Parents == 0 .. trace_bound

\* The replay before interpret_ir makes its first adapter call.
Fresh ==
    /\ expected_results = <<>>
    /\ expected_pos = 0
    /\ trace_rows = <<>>
    /\ next_op = 0
    /\ iters = Empty
    /\ neighbors = Empty
    /\ stack = <<>>
    /\ pc = "running"
    /\ fatal = ""
    /\ last = Handler("init", 0)
    /\ hist = Empty

\* No VertexInfo view is looked at during a replay.
NoHints == vertex_info = None /\ hint = [call |-> "none"]

Init ==
    /\ trace_bound = MaxTrace
    /\ complete = None
    /\ Fresh
    /\ NoHints

\* The state as one record, so that a handler is a function of it.
Cur ==
    [complete |-> complete,
     expected_results |-> expected_results,
     expected_pos |-> expected_pos,
     trace_rows |-> trace_rows,
     next_op |-> next_op,
     iters |-> iters,
     neighbors |-> neighbors,
     stack |-> stack,
     pc |-> pc,
     fatal |-> fatal,
     last |-> last,
     hist |-> hist]

Commit(st) ==
    /\ expected_results' = st.expected_results
    /\ expected_pos' = st.expected_pos
    /\ trace_rows' = st.trace_rows
    /\ next_op' = st.next_op
    /\ iters' = st.iters
    /\ neighbors' = st.neighbors
    /\ stack' = st.stack
    /\ pc' = st.pc
    /\ fatal' = st.fatal
    /\ last' = st.last
    /\ hist' = st.hist
    /\ complete' = st.complete
    /\ UNCHANGED <<trace_bound, vertex_info, hint>>

\* The state in which a handler starts.
Start(who, it) == [Cur EXCEPT !.last = [Handler(who, it) EXCEPT !.first = next_op]]

\* assert_interpreted_results is left, by a return or by a panic that unwinds
\* it: the interpreter and every iterator are dropped.
Drop(st) ==
    [st EXCEPT !.iters = Empty, !.neighbors = Empty, !.stack = <<>>, !.hist = Empty]

\* A failed assert!/assert_eq!/expect()/unwrap()/unreachable!(): the replay aborts.
Fail(st, why) ==
    [Drop(st) EXCEPT !.pc = "panic", !.fatal = why, !.last.ret = <<>>,
                     !.last.parent_opid = 0]

\* Faulty variant: the cursor passes two ops for one read.
advance_ref_iter_skip(st, p) == [st EXCEPT !.next_op = @ + 2, !.last.parent_opid = p]

\* advance_ref_iter returned Some((opid, trace_op)): the cursor has passed one
\* more op, whose parent_opid is p (0 for None).
advance_ref_iter(st, p) == [st EXCEPT !.next_op = @ + 1, !.last.parent_opid = p]

\* The op advance_ref_iter returned, of content c, matched what its reader
\* expected.
Accept(st, c) ==
    [st EXCEPT !.last.ops = Append(@, [opid |-> st.next_op,
                                       parent |-> st.last.parent_opid,
                                       content |-> c])]

\* The interpreter's code is running: in interpret_ir() or in trace_iter.next().
Running == pc = "running"

IsCall(c, fn) == c.tag = "Call" /\ c.fn = fn

\* Box::new(TraceReader...Iter { exhausted: false, parent_opid: *root_opid,
\* contexts, input_batch: Default::default(), inner }).  The model names the
\* iterator by the opid of its Call op.
NewIter(st, kind, q, c) ==
    LET root_opid == st.next_op
        st1 == Accept(st, c)
    IN  [st1 EXCEPT
            !.iters = @ @@ (root_opid :>
                [parent_opid |-> root_opid,
                 kind |-> kind,
                 exhausted |-> FALSE,
                 input_batch |-> <<>>]),
            !.last.input = q,
            !.hist = @ @@ (root_opid :>
                [advance_ops |-> 0, contexts_next |-> 0, pulled |-> <<>>,
                 yielded |-> <<>>])]

\* NeighborsCall without assert_eq!(Some(*eid), origin_crossing_eid()): a
\* faulty variant, under which a call across another edge would be accepted.
NeighborsCall_no_eid_assert(st, q, c) ==
    IF ~IsCall(c, "ResolveNeighbors") THEN Fail(st, "call_unreachable")
    ELSE IF c.vid # q.vid THEN Fail(st, "call_vid")
    ELSE IF c.type_name # q.type_name THEN Fail(st, "call_type_name")
    ELSE NewIter(st, "Neighbors", q, c)

\* The body of resolve_starting_vertices once the op under the cursor is known
\* to have no parent_opid.
StartingVerticesCall(st, q, c) ==
    IF ~IsCall(c, "ResolveStartingVertices") THEN Fail(st, "call_unreachable")
    ELSE IF c.vid # q.vid THEN Fail(st, "call_vid")
    ELSE IF q.crossing_eid # 0 THEN Fail(st, "call_crossing_eid")
    ELSE NewIter(st, "StartingVertices", q, c)

\* PropertyCall without assert_eq!(property, property_name): a faulty variant,
\* under which the call made is not the call recorded.
PropertyCall_no_name_assert(st, q, c) ==
    IF ~IsCall(c, "ResolveProperty") THEN Fail(st, "call_unreachable")
    ELSE IF c.vid # q.vid THEN Fail(st, "call_vid")
    ELSE IF c.type_name # q.type_name THEN Fail(st, "call_type_name")
    ELSE IF q.crossing_eid # 0 THEN Fail(st, "call_crossing_eid")
    ELSE NewIter(st, "Property", q, c)

PropertyCall(st, q, c) ==
    IF ~IsCall(c, "ResolveProperty") THEN Fail(st, "call_unreachable")
    ELSE IF c.vid # q.vid THEN Fail(st, "call_vid")
    ELSE IF c.type_name # q.type_name THEN Fail(st, "call_type_name")
    ELSE IF c.name # q.name THEN Fail(st, "call_name")
    ELSE IF q.crossing_eid # 0 THEN Fail(st, "call_crossing_eid")
    ELSE NewIter(st, "Property", q, c)

NeighborsCall(st, q, c) ==
    IF ~IsCall(c, "ResolveNeighbors") THEN Fail(st, "call_unreachable")
    ELSE IF c.vid # q.vid THEN Fail(st, "call_vid")
    ELSE IF c.type_name # q.type_name THEN Fail(st, "call_type_name")
    ELSE IF c.eid # q.crossing_eid THEN Fail(st, "call_crossing_eid")
    ELSE NewIter(st, "Neighbors", q, c)

CoercionCall(st, q, c) ==
    IF ~IsCall(c, "ResolveCoercion") THEN Fail(st, "call_unreachable")
    ELSE IF c.vid # q.vid THEN Fail(st, "call_vid")
    ELSE IF c.type_name # q.type_name THEN Fail(st, "call_type_name")
    ELSE IF c.name # q.name THEN Fail(st, "call_name")
    ELSE IF q.crossing_eid # 0 THEN Fail(st, "call_crossing_eid")
    ELSE NewIter(st, "Coercion", q, c)

CallBody(st, fn, q, c) ==
    CASE fn = "ResolveStartingVertices" -> StartingVerticesCall(st, q, c)
      [] fn = "ResolveProperty" -> PropertyCall(st, q, c)
      [] fn = "ResolveNeighbors" -> NeighborsCall(st, q, c)
      [] fn = "ResolveCoercion" -> CoercionCall(st, q, c)

\* RootCheck without the assert_eq!: a faulty variant, under which an adapter
\* call would take a Call op recorded below a stream.
RootCheck_any_parent(st) == st

\* assert_eq!(None, trace_op.parent_opid) of the four adapter calls.
RootCheck(st) == IF st.last.parent_opid # 0 THEN Fail(st, "call_parent") ELSE st

\* The contents an adapter call tells apart: each Call, and one op of another
\* type for the unreachable!() arm of its match.
AdapterCallContents == CallContents \cup [tag : {"AdvanceInputIterator"}]

\* The head every adapter call shares: take the op under the cursor (expect),
\* check it has no parent_opid, then match the Call variant and its arguments.
AdapterCall(fn) ==
    /\ Running
    /\ Cardinality(DOMAIN iters) < MaxCalls
    /\ LET st == Start(fn, 0) IN
       \/ Commit(Fail(st, "call_expect"))
       \/ /\ next_op < trace_bound
          /\ \E p \in Parents :
                LET st1 == RootCheck(advance_ref_iter(st, p)) IN
                IF st1.pc = "panic" THEN Commit(st1)
                ELSE \E c \in AdapterCallContents :
                        IF ~IsCall(c, fn) THEN Commit(CallBody(st1, fn, None, c))
                        ELSE \E q \in CallArgs : Commit(CallBody(st1, fn, q, c))

resolve_starting_vertices == AdapterCall("ResolveStartingVertices")
resolve_property == AdapterCall("ResolveProperty")
resolve_neighbors == AdapterCall("ResolveNeighbors")
resolve_coercion == AdapterCall("ResolveCoercion")

\* The YieldValue variant each kind of iterator yields.
YieldVariant(kind) ==
    CASE kind = "StartingVertices" -> "ResolveStartingVertices"
      [] kind = "Property" -> "ResolveProperty"
      [] kind = "Coercion" -> "ResolveCoercion"
      [] kind = "Neighbors" -> "ResolveNeighborsOuter"

PopFront(st, s) == [st EXCEPT !.iters[s].input_batch = Tail(@)]
PopStack(st) == [st EXCEPT !.stack = Tail(@)]

\* TraceReaderNeighborIter { exhausted: false, parent_iterator_opid:
\* next_op.opid, next_index: 0, inner }, named by the opid of the outer yield.
NewNeighborIter(st, opid) ==
    [st EXCEPT
        !.neighbors = @ @@ (opid :>
            [exhausted |-> FALSE, parent_iterator_opid |-> opid, next_index |-> 0]),
        !.hist = @ @@ (opid :>
            [advance_ops |-> 0, contexts_next |-> 0, pulled |-> <<>>,
             yielded |-> <<>>])]

\* YieldArm without assert_eq!(trace_context, &input_context): a faulty
\* variant.
YieldArm_no_context_assert(st, s, c) ==
    LET kind == st.iters[s].kind
        batch == st.iters[s].input_batch
        opid == st.next_op
    IN  IF batch = <<>> THEN Fail(st, "yield_unwrap_none")
        ELSE LET input_context == Head(batch)
                 st1 == PopFront(st, s)
                 out == [context |-> input_context, trace_context |-> c.context]
                 st2 == [Accept(st1, c) EXCEPT !.hist[s].yielded = Append(@, out),
                                                   !.last.ret = <<out>>]
             IN  IF kind = "Neighbors" THEN PopStack(NewNeighborIter(st2, opid))
                 ELSE PopStack(st2)

\* YieldFrom arm of the final match: input_batch.pop_front().unwrap(),
\* assert_eq!(trace_context, &input_context), Some((input_context, ...)).
YieldArm(st, s, c) ==
    LET kind == st.iters[s].kind
        batch == st.iters[s].input_batch
        opid == st.next_op
    IN  IF batch = <<>> THEN Fail(st, "yield_unwrap_none")
        ELSE LET input_context == Head(batch)
                 st1 == PopFront(st, s)
                 out == [context |-> input_context, trace_context |-> c.context]
                 st2 == [Accept(st1, c) EXCEPT !.hist[s].yielded = Append(@, out),
                                                   !.last.ret = <<out>>]
             IN  IF c.context # input_context THEN Fail(st1, "yield_context")
                 ELSE IF kind = "Neighbors" THEN PopStack(NewNeighborIter(st2, opid))
                 ELSE PopStack(st2)

\* ExhaustedArm without assert_eq!(None, self.input_batch.pop_front()): a
\* faulty variant, under which pulled inputs may never be yielded.
ExhaustedArm_no_batch_assert(st, s, c) ==
    PopStack([Accept(st, c) EXCEPT !.iters[s].exhausted = TRUE])

\* OutputIteratorExhausted arm: assert_eq!(None, input_batch.pop_front()),
\* exhausted = true, None.
ExhaustedArm(st, s, c) ==
    IF st.iters[s].input_batch # <<>> THEN Fail(PopFront(st, s), "batch_not_empty")
    ELSE PopStack([Accept(st, c) EXCEPT !.iters[s].exhausted = TRUE])

\* The match on next_op.content after the loop.
OutputMatch(st, s, c) ==
    IF c.tag = "YieldFrom" /\ c.yv = YieldVariant(st.iters[s].kind)
    THEN YieldArm(st, s, c)
    ELSE IF c.tag = "OutputIteratorExhausted" THEN ExhaustedArm(st, s, c)
    ELSE Fail(st, "output_unreachable")

\* let input_data = self.contexts.next(): the iterator waits on the stack for
\* the interpreter's answer.
CallContextsNext(st, s) ==
    [st EXCEPT !.hist[s].contexts_next = @ + 1, !.stack[1].advance = st.next_op]

\* LoopHead that takes an AdvanceInputIterator op without calling
\* self.contexts.next(): a faulty variant.
LoopHead_no_pull(st, s, c) ==
    IF c.tag = "AdvanceInputIterator"
    THEN [Accept(st, c) EXCEPT !.hist[s].advance_ops = @ + 1,
                                  !.stack[1].advance = st.next_op]
    ELSE OutputMatch(st, s, c)

\* One pass of the loop from its head, for an op whose parent_opid matched: an
\* AdvanceInputIterator op calls self.contexts.next(), any other op breaks out
\* of the loop.
LoopHead(st, s, c) ==
    IF c.tag = "AdvanceInputIterator"
    THEN CallContextsNext([Accept(st, c) EXCEPT !.hist[s].advance_ops = @ + 1], s)
    ELSE OutputMatch(st, s, c)

\* ParentCheck that only requires some parent_opid: a faulty variant, under
\* which a stream would take the ops of another stream.
ParentCheck_any_parent(st, want) ==
    IF st.last.parent_opid = 0 THEN Fail(st, "expect_parent") ELSE st

\* The assert_eq! on parent_opid that every iterator makes before it looks at
\* the content of an op.
ParentCheck(st, want) ==
    IF st.last.parent_opid = 0 THEN Fail(st, "expect_parent")
    ELSE IF st.last.parent_opid # want THEN Fail(st, "parent_mismatch")
    ELSE st

\* The loop of next() from its head until it waits for an input or returns.
LoopIter(st, s) ==
    \/ Commit(Fail(st, "expect_item"))
    \/ /\ st.next_op < trace_bound
       /\ \E p \in Parents :
            LET st1 == ParentCheck(advance_ref_iter(st, p), st.iters[s].parent_opid) IN
            IF st1.pc = "panic" THEN Commit(st1)
            ELSE \E c \in IterContents : Commit(LoopHead(st1, s, c))

\* InputMatch without assert_eq!(context, &input_context): a faulty variant.
InputMatch_no_context_assert(st, s, input_data, c) ==
    IF c.tag = "YieldInto"
    THEN IF input_data = None THEN Fail(st, "input_unwrap_none")
         ELSE [Accept(st, c) EXCEPT !.iters[s].input_batch = Append(@, input_data)]
    ELSE IF c.tag = "InputIteratorExhausted"
    THEN IF input_data # None THEN Fail(st, "input_not_exhausted")
         ELSE Accept(st, c)
    ELSE Fail(st, "input_unreachable")

\* InputMatch without assert_eq!(None, input_data) in its
\* InputIteratorExhausted arm: a faulty variant.
InputMatch_no_none_assert(st, s, input_data, c) ==
    IF c.tag = "YieldInto"
    THEN IF input_data = None THEN Fail(st, "input_unwrap_none")
         ELSE IF c.context # input_data THEN Fail(st, "input_context")
         ELSE [Accept(st, c) EXCEPT !.iters[s].input_batch = Append(@, input_data)]
    ELSE IF c.tag = "InputIteratorExhausted"
    THEN Accept(st, c)
    ELSE Fail(st, "input_unreachable")

\* The op read after self.contexts.next() returned input_data.
InputMatch(st, s, input_data, c) ==
    IF c.tag = "YieldInto"
    THEN IF input_data = None THEN Fail(st, "input_unwrap_none")
         ELSE IF c.context # input_data THEN Fail(st, "input_context")
         ELSE [Accept(st, c) EXCEPT !.iters[s].input_batch = Append(@, input_data)]
    ELSE IF c.tag = "InputIteratorExhausted"
    THEN IF input_data # None THEN Fail(st, "input_not_exhausted")
         ELSE Accept(st, c)
    ELSE Fail(st, "input_unreachable")

\* next() is called on an iterator that is not inside next() already.
Enter(s, kind) ==
    /\ Running
    /\ s \in DOMAIN iters
    /\ iters[s].kind = kind
    /\ \A i \in 1 .. Len(stack) : stack[i].it # s

\* assert!(!self.exhausted), then the loop.
BeginNext(s) ==
    LET st == Start("next", s) IN
    IF iters[s].exhausted THEN Commit(Fail(st, "assert_not_exhausted"))
    ELSE LoopIter([st EXCEPT !.stack = <<[it |-> s, advance |-> 0]>> \o @], s)

TraceReaderResolvePropertiesIter_next(s) == Enter(s, "Property") /\ BeginNext(s)
TraceReaderResolveCoercionIter_next(s) == Enter(s, "Coercion") /\ BeginNext(s)
TraceReaderResolveNeighborsIter_next(s) == Enter(s, "Neighbors") /\ BeginNext(s)

\* The interpreter answers the contexts.next() of the innermost waiting
\* iterator; the iterator reads the op that follows and goes round its loop.
ContextsNext(input_data) ==
    /\ Running
    /\ stack # <<>>
    /\ LET s == Head(stack).it
           st == [Start("contexts_next", s) EXCEPT
                    !.last.input = input_data,
                    !.last.after = Head(stack).advance,
                    !.hist[s].pulled = Append(@, input_data)]
       IN  \/ Commit(Fail(st, "expect_item"))
           \/ /\ st.next_op < trace_bound
              /\ \E p \in Parents :
                    LET st1 == ParentCheck(advance_ref_iter(st, p), st.iters[s].parent_opid) IN
                    IF st1.pc = "panic" THEN Commit(st1)
                    ELSE \E c \in IterContents :
                            LET st2 == InputMatch(st1, s, input_data, c) IN
                            IF st2.pc = "panic" THEN Commit(st2)
                            ELSE LoopIter(st2, s)

\* StartingVerticesMatch that yields the vertex of a ResolveNeighborsInner op
\* too: a faulty variant, which hands out a value from an op of another kind.
StartingVerticesMatch_any_vertex(st, s, c) ==
    IF c.tag = "OutputIteratorExhausted"
    THEN [Accept(st, c) EXCEPT !.iters[s].exhausted = TRUE]
    ELSE IF c.tag = "YieldFrom"
            /\ c.yv \in {"ResolveStartingVertices", "ResolveNeighborsInner"}
    THEN [Accept(st, c) EXCEPT
            !.hist[s].yielded = Append(@, [vertex |-> c.vertex]),
            !.last.ret = <<[vertex |-> c.vertex]>>]
    ELSE Fail(st, "output_unreachable")

\* The match of TraceReaderStartingVerticesIter::next.
StartingVerticesMatch(st, s, c) ==
    IF c.tag = "OutputIteratorExhausted"
    THEN [Accept(st, c) EXCEPT !.iters[s].exhausted = TRUE]
    ELSE IF c.tag = "YieldFrom" /\ c.yv = "ResolveStartingVertices"
    THEN [Accept(st, c) EXCEPT
            !.hist[s].yielded = Append(@, [vertex |-> c.vertex]),
            !.last.ret = <<[vertex |-> c.vertex]>>]
    ELSE Fail(st, "output_unreachable")

TraceReaderStartingVerticesIter_next(s) ==
    /\ Enter(s, "StartingVertices")
    /\ LET st == Start("next", s) IN
       IF iters[s].exhausted THEN Commit(Fail(st, "assert_not_exhausted"))
       ELSE \/ Commit(Fail(st, "expect_item"))
            \/ /\ next_op < trace_bound
               /\ \E p \in Parents :
                    LET st1 == ParentCheck(advance_ref_iter(st, p), iters[s].parent_opid) IN
                    IF st1.pc = "panic" THEN Commit(st1)
                    ELSE \E c \in IterContents :
                            Commit(StartingVerticesMatch(st1, s, c))

\* NeighborMatch without assert_eq!(self.next_index, *index): a faulty variant.
NeighborMatch_no_index_assert(st, n, c) ==
    IF c.tag = "OutputIteratorExhausted"
    THEN [Accept(st, c) EXCEPT !.neighbors[n].exhausted = TRUE]
    ELSE IF c.tag = "YieldFrom" /\ c.yv = "ResolveNeighborsInner"
    THEN [Accept(st, c) EXCEPT
            !.neighbors[n].next_index = @ + 1,
            !.hist[n].yielded = Append(@, [index |-> c.index,
                                           vertex |-> c.vertex]),
            !.last.ret = <<[index |-> c.index, vertex |-> c.vertex]>>]
    ELSE Fail(st, "output_unreachable")

\* The match of TraceReaderNeighborIter::next.
NeighborMatch(st, n, c) ==
    IF c.tag = "OutputIteratorExhausted"
    THEN [Accept(st, c) EXCEPT !.neighbors[n].exhausted = TRUE]
    ELSE IF c.tag = "YieldFrom" /\ c.yv = "ResolveNeighborsInner"
    THEN IF st.neighbors[n].next_index # c.index THEN Fail(st, "neighbor_index")
         ELSE [Accept(st, c) EXCEPT
                 !.neighbors[n].next_index = @ + 1,
                 !.hist[n].yielded = Append(@, [index |-> c.index,
                                                vertex |-> c.vertex]),
                 !.last.ret = <<[index |-> c.index, vertex |-> c.vertex]>>]
    ELSE Fail(st, "output_unreachable")

\* TraceReaderNeighborIter::next takes the op under the cursor before it
\* asserts !self.exhausted.
TraceReaderNeighborIter_next(n) ==
    /\ Running
    /\ n \in DOMAIN neighbors
    /\ LET st == Start("neighbor_next", n) IN
       \/ Commit(Fail(st, "expect_item"))
       \/ /\ next_op < trace_bound
          /\ IF neighbors[n].exhausted
             THEN Commit(Fail(advance_ref_iter(st, 0), "assert_not_exhausted"))
             ELSE \E p \in Parents :
                    LET st1 == ParentCheck(advance_ref_iter(st, p),
                                           neighbors[n].parent_iterator_opid) IN
                    IF st1.pc = "panic" THEN Commit(st1)
                    ELSE \E c \in IterContents : Commit(NeighborMatch(st1, n, c))

\* ExpectedRowMatch without assert_eq!(expected_row, trace_row): a faulty
\* variant, under which a replay that yields other rows would pass.
ExpectedRowMatch_no_row_assert(st, expected_row, trace_row, c) ==
    IF c.tag # "ProduceQueryResult" THEN Fail(st, "result_other_op")
    ELSE IF c.row # expected_row THEN Fail(st, "result_self_inconsistent")
    ELSE [Accept(st, c) EXCEPT !.expected_pos = @ + 1]

\* ExpectedRowMatch without assert_eq!(trace_expected_row, expected_row): a
\* faulty variant, under which the recorded row is not compared.
ExpectedRowMatch_no_trace_assert(st, expected_row, trace_row, c) ==
    IF c.tag # "ProduceQueryResult" THEN Fail(st, "result_other_op")
    ELSE IF expected_row # trace_row THEN Fail(st, "result_row")
    ELSE [Accept(st, c) EXCEPT !.expected_pos = @ + 1]

\* The body of the loop of assert_interpreted_results for an expected row, once
\* the op under the cursor is read; its parent_opid is not looked at.
ExpectedRowMatch(st, expected_row, trace_row, c) ==
    IF c.tag # "ProduceQueryResult" THEN Fail(st, "result_other_op")
    ELSE IF c.row # expected_row THEN Fail(st, "result_self_inconsistent")
    ELSE IF expected_row # trace_row THEN Fail(st, "result_row")
    ELSE [Accept(st, c) EXCEPT !.expected_pos = @ + 1]

\* Return without the assert_eq!: a faulty variant, under which a row the
\* engine yields after the last expected one passes with complete = true.
Return_no_assert(st, flag, trace_row) ==
    [Drop(st) EXCEPT !.complete = flag, !.pc = "returned"]

\* The else branch of the loop, expected_iter being exhausted:
\* if complete { assert_eq!(None, trace_row) }; return.
Return(st, flag, trace_row) ==
    IF flag /\ trace_row # None
    THEN Fail([st EXCEPT !.complete = flag], "result_extra_row")
    ELSE [Drop(st) EXCEPT !.complete = flag, !.pc = "returned"]

\* The contents the loop of assert_interpreted_results tells apart: each
\* ProduceQueryResult, and one op of another type for the else of its let.
ResultLoopContents ==
    [tag : {"ProduceQueryResult"}, row : Rows] \cup [tag : {"AdvanceInputIterator"}]

\* One pass of the loop of assert_interpreted_results: expected_iter.next()
\* gave expected_row and trace_iter.next() returns trace_row; the body runs up
\* to the next trace_iter.next() or to the return.
trace_iter_next_returns(expected_row, trace_row) ==
    /\ Running
    /\ stack = <<>>
    /\ expected_row # None => Len(expected_results) < MaxRows
    /\ LET st == [Start("row", 0) EXCEPT !.trace_rows = Append(@, trace_row)] IN
       IF expected_row # None
       THEN LET st1 == [st EXCEPT !.expected_results = Append(@, expected_row)] IN
            \/ Commit(Fail(st1, "result_trace_end"))
            \/ /\ next_op < trace_bound
               /\ \E c \in ResultLoopContents :
                    IF c.tag # "ProduceQueryResult"
                    THEN Commit(ExpectedRowMatch(advance_ref_iter(st1, 0),
                                                 expected_row, trace_row, c))
                    ELSE \E p \in {0, next_op} :
                            Commit(ExpectedRowMatch(advance_ref_iter(st1, p),
                                                    expected_row, trace_row, c))
       ELSE \E flag \in BOOLEAN : Commit(Return(st, flag, trace_row))

Next ==
    \/ resolve_starting_vertices
    \/ resolve_property
    \/ resolve_neighbors
    \/ resolve_coercion
    \/ \E s \in 1 .. MaxTrace : TraceReaderStartingVerticesIter_next(s)
    \/ \E s \in 1 .. MaxTrace : TraceReaderResolvePropertiesIter_next(s)
    \/ \E s \in 1 .. MaxTrace : TraceReaderResolveCoercionIter_next(s)
    \/ \E s \in 1 .. MaxTrace : TraceReaderResolveNeighborsIter_next(s)
    \/ \E n \in 1 .. MaxTrace : TraceReaderNeighborIter_next(n)
    \/ \E input_data \in Opt(Contexts) : ContextsNext(input_data)
    \/ \E expected_row \in Opt(Rows), trace_row \in Opt(Rows) :
            trace_iter_next_returns(expected_row, trace_row)

Spec == Init /\ [][Next]_vars

(***************************************************************************)
(* The life of the iterator of a single adapter call, on longer traces:    *)
(* the interpreter makes one adapter call, pulls the iterator and the      *)
(* neighbor iterators it yields, and answers its contexts.next() calls.    *)
(***************************************************************************)
InitStream ==
    /\ trace_bound = MaxStreamTrace
    /\ complete = None
    /\ Fresh
    /\ NoHints

FirstCall ==
    /\ iters = Empty
    /\ \/ resolve_starting_vertices
       \/ resolve_property
       \/ resolve_neighbors
       \/ resolve_coercion

NextStream ==
    \/ FirstCall
    \/ \E s \in 1 .. MaxStreamTrace : TraceReaderStartingVerticesIter_next(s)
    \/ \E s \in 1 .. MaxStreamTrace : TraceReaderResolvePropertiesIter_next(s)
    \/ \E s \in 1 .. MaxStreamTrace : TraceReaderResolveCoercionIter_next(s)
    \/ \E s \in 1 .. MaxStreamTrace : TraceReaderResolveNeighborsIter_next(s)
    \/ \E n \in 1 .. MaxStreamTrace : TraceReaderNeighborIter_next(n)
    \/ \E input_data \in Opt(Contexts) : ContextsNext(input_data)

SpecStream == InitStream /\ [][NextStream]_vars

(***************************************************************************)
(* The replay of a trace whose length is known: trace.ops holds exactly    *)
(* trace_bound ops, so the cursor's next() returns None (and the expect or *)
(* let-else on it panics) only once the cursor has passed them all.        *)
(***************************************************************************)
TraceEnd == {"call_expect", "expect_item", "result_trace_end"}

NextWhole == Next /\ (fatal' \in TraceEnd => next_op = trace_bound)

SpecWhole == Init /\ [][NextWhole]_vars

(***************************************************************************)
(* Hints (trustfall_core interpreter/hints): what an adapter can learn     *)
(* from its VertexInfo view about the vertex it is asked to resolve.  The  *)
(* view is read-only: `vertex_info` is the part of the query the hints     *)
(* read (the vertex's filters, in IR order, and the query arguments),      *)
(* `hint` the latest call made on the view, with its receiver and result.  *)
(* An Option is a sequence: <<>> for None, <<x>> for Some(x).              *)
(***************************************************************************)
\* Most filters on the vertex the view is about.
MaxFilters == 3
\* Longest list of values in a Multiple candidate handed to merge.
MaxValues == 2
\* Longest stream of contexts handed to resolve.
MaxContexts == 2
\* Most edges and folds in the component of the vertex.
MaxEdges == 3
\* Width of the machine integers (i64, u64) in the model, in bits.
Bits == 4

\* FieldValue (ir/value.rs), as far as the hints look into it.
NULL == [tag |-> "Null"]
Int64(n) == [tag |-> "Int64", v |-> n]
List(vs) == [tag |-> "List", v |-> vs]
HintValues == {NULL, Int64(3), Int64(4)}

\* The properties of the vertex, and the Vids tags can come from.
FieldNames == {"f", "g"}
TagVids == {1, 2, 3}
StartingVids == {1, 2}
CurrentVids == {3}

\* Argument: a query variable or a tag; FieldRef: a context field or a
\* fold-specific field.
Variable(variable_name) == [kind |-> "Variable", variable_name |-> variable_name]
ContextField(vertex_id) ==
    [kind |-> "Tag",
     vertex_id |-> vertex_id,
     ref |-> "ContextField",
     field_name |-> "t",
     nullable |-> TRUE]
FoldSpecificField == [kind |-> "Tag", ref |-> "FoldSpecificField"]

\* Operation<(), Argument>: the filters a vertex can carry.
IsNull(field) == [field |-> field, op |-> "IsNull"]
IsNotNull(field) == [field |-> field, op |-> "IsNotNull"]
Equals(field, arg) == [field |-> field, op |-> "Equals", arg |-> arg]
OneOf(field, arg) == [field |-> field, op |-> "OneOf", arg |-> arg]
Filters ==
    { IsNull("f"), IsNotNull("f"), IsNotNull("g"),
      Equals("f", Variable("x")), Equals("g", Variable("y")), OneOf("f", Variable("xs")),
      Equals("f", ContextField(1)), OneOf("g", ContextField(2)), Equals("f", ContextField(3)),
      Equals("f", FoldSpecificField) }

\* The query arguments: x and y are scalars, xs is a list (a one_of operand
\* is a list in every query that passed type checking).
Arguments ==
    { [x |-> vx, y |-> Int64(4), xs |-> vxs] :
        vx \in {NULL, Int64(3)},
        vxs \in {List(<<Int64(3), Int64(4)>>), List(<<Int64(4)>>)} }

FilterLists == UNION { [1..n -> Filters] : n \in 0..MaxFilters }

\* CandidateValue<FieldValue>.
Impossible == [kind |-> "Impossible"]
Single(value) == [kind |-> "Single", v |-> value]
Multiple(values) == [kind |-> "Multiple", v |-> values]
All == [kind |-> "All"]

Elems(values) == { values[i] : i \in DOMAIN values }

\* The values a candidate allows.
Allowed(candidate) ==
    CASE candidate.kind = "Impossible" -> {}
      [] candidate.kind = "Single" -> {candidate.v}
      [] candidate.kind = "Multiple" -> Elems(candidate.v)
      [] candidate.kind = "All" -> HintValues

\* Faulty variant: merge keeps the receiver whatever the other candidate is.
merge_keep_self(self, other) == self

\* CandidateValue::merge (hints/candidates.rs): the intersection of the two
\* candidates.  Impossible absorbs, All is the identity, and of two lists
\* the values of the first that the second allows are kept, in their order.
merge(self, other) ==
    CASE self.kind = "Impossible" \/ other.kind = "Impossible" -> Impossible
      [] self.kind = "All" -> other
      [] other.kind = "All" -> self
      [] self.kind = "Single" ->
            IF self.v \in Allowed(other) THEN self ELSE Impossible
      [] OTHER ->
            LET kept == SelectSeq(self.v, LAMBDA value : value \in Allowed(other))
            IN  CASE Len(kept) = 0 -> Impossible
                  [] Len(kept) = 1 -> Single(kept[1])
                  [] OTHER -> Multiple(kept)

\* candidate = Some(candidate.merge(new)) or Some(new)
MergeInto(candidate, new) ==
    IF candidate # <<>> THEN <<merge(candidate[1], new)>> ELSE <<new>>

IsVariableFilter(filter_operation, op) ==
    /\ filter_operation.op = op
    /\ filter_operation.arg.kind = "Variable"

\* FieldValue::as_vec on a list.
as_vec(value) == value.v

\* Faulty variant: the Equals arm overwrites the candidate instead of merging.
EqualsArm_overwrite(candidate, arguments, var) ==
    <<Single(arguments[var.variable_name])>>

\* The Equals arm of the loop in static_field_value.
EqualsArm(candidate, arguments, var) ==
    MergeInto(candidate, Single(arguments[var.variable_name]))

\* The OneOf arm of the loop in static_field_value.
OneOfArm(candidate, arguments, var) ==
    MergeInto(candidate, Multiple(as_vec(arguments[var.variable_name])))

RECURSIVE static_field_value_loop(_, _, _, _)
static_field_value_loop(filters, arguments, i, candidate) ==
    IF i > Len(filters) THEN candidate
    ELSE LET filter_operation == filters[i]
         IN  static_field_value_loop(filters, arguments, i + 1,
                CASE IsVariableFilter(filter_operation, "Equals") ->
                        EqualsArm(candidate, arguments, filter_operation.arg)
                  [] IsVariableFilter(filter_operation, "OneOf") ->
                        OneOfArm(candidate, arguments, filter_operation.arg)
                  [] OTHER -> candidate)

\* Faulty variant: no early return for contradictory null filters.
NullContradiction_never(filters) == FALSE

\* is_null && is_not_null: the early return of static_field_value.
NullContradiction(filters) ==
    /\ \E i \in DOMAIN filters : filters[i].op = "IsNull"
    /\ \E i \in DOMAIN filters : filters[i].op = "IsNotNull"

\* VertexInfo::static_field_value.  field_name is not looked at.
static_field_value(info, field_name) ==
    LET filters == info.filters
        is_null == \E i \in DOMAIN filters : filters[i].op = "IsNull"
    IN  IF NullContradiction(filters)
        THEN <<Impossible>>
        ELSE static_field_value_loop(filters, info.arguments, 1,
                                     IF is_null THEN <<Single(NULL)>> ELSE <<>>)

\* DynamicallyResolvedValue; the component is named by the Vid it was
\* looked up with in indexed_query.vids.
DynamicallyResolvedValue(vid, component_of, context_field, is_multiple) ==
    [vid |-> vid,
     context_field |-> context_field,
     is_multiple |-> is_multiple,
     resolve_on_component |-> component_of]

\* Faulty variant: the arms match a tag of any kind of field.
LocalTagMatch_any_tag(filter_operation) ==
    /\ filter_operation.op \in {"Equals", "OneOf"}
    /\ filter_operation.arg.kind = "Tag"

\* The patterns of the two arms in LocalQueryInfo::dynamic_field_value.
LocalTagMatch(filter_operation) ==
    /\ filter_operation.op \in {"Equals", "OneOf"}
    /\ filter_operation.arg.kind = "Tag"
    /\ filter_operation.arg.ref = "ContextField"

RECURSIVE local_dynamic_loop(_, _, _)
local_dynamic_loop(vertex, filters, i) ==
    IF i > Len(filters) THEN <<>>
    ELSE IF LocalTagMatch(filters[i])
         THEN <<DynamicallyResolvedValue(vertex, vertex, filters[i].arg,
                                         filters[i].op = "OneOf")>>
         ELSE local_dynamic_loop(vertex, filters, i + 1)

\* LocalQueryInfo::dynamic_field_value.  field_name is not looked at.
LocalQueryInfo_dynamic_field_value(info, field_name) ==
    local_dynamic_loop(info.vid, info.filters, 1)

\* Faulty variant: the arms return without comparing the tag's Vid.
NeighboringTagMatch_no_vid_check(filter_operation, starting_vertex) ==
    /\ filter_operation.op \in {"Equals", "OneOf"}
    /\ filter_operation.arg.kind = "Tag"
    /\ filter_operation.arg.ref = "ContextField"

\* The patterns of the two arms in NeighboringQueryInfo::dynamic_field_value
\* together with the condition under which they return.
NeighboringTagMatch(filter_operation, starting_vertex) ==
    /\ filter_operation.op \in {"Equals", "OneOf"}
    /\ filter_operation.arg.kind = "Tag"
    /\ filter_operation.arg.ref = "ContextField"
    /\ filter_operation.arg.vertex_id <= starting_vertex

RECURSIVE neighboring_dynamic_loop(_, _, _, _)
neighboring_dynamic_loop(vertex, starting_vertex, filters, i) ==
    IF i > Len(filters) THEN <<>>
    ELSE IF NeighboringTagMatch(filters[i], starting_vertex)
         THEN <<DynamicallyResolvedValue(vertex, starting_vertex, filters[i].arg,
                                         filters[i].op = "OneOf")>>
         ELSE neighboring_dynamic_loop(vertex, starting_vertex, filters, i + 1)

\* NeighboringQueryInfo::dynamic_field_value.  field_name is not looked at.
NeighboringQueryInfo_dynamic_field_value(info, starting_vertex, field_name) ==
    neighboring_dynamic_loop(info.vid, starting_vertex, info.filters, 1)

\* The contexts resolve() can be handed: the binding of the tag's vertex
\* (ctx.tokens[context_field_vid]) and the value the adapter has for the
\* tagged field of a bound vertex.
ResolveContexts ==
    {[value |-> NULL, token |-> None]} \cup
    { [value |-> value, token |-> "v1"] :
        value \in {NULL, Int64(3), List(<<Int64(3), Int64(4)>>)} }

\* compute_context_field_with_separate_value (interpreter/execution.rs): the
\* value of the tagged field for one context, Null when the tag's vertex is
\* not bound.
compute_context_field_with_separate_value(ctx) ==
    IF ctx.token = None THEN NULL ELSE ctx.value

Panicked == [kind |-> "Panic"]

\* Faulty variant: the binding test is inverted.
TokenIsNone_inverted(ctx) == ctx.token # None

\* The binding test of both closures in resolve.
TokenIsNone(ctx) == ctx.token = None

\* Faulty variant: an unexpected value of a `one_of` tag is passed on as a
\* single candidate instead of being fatal.
resolve_value_no_panic(self, ctx, value) ==
    IF self.is_multiple
    THEN CASE value.tag = "List" -> Multiple(value.v)
           [] value.tag = "Null" -> IF ctx.token = None THEN All ELSE Impossible
           [] OTHER -> Single(value)
    ELSE CASE value.tag = "Null" -> IF ctx.token = None THEN All ELSE Single(value)
           [] OTHER -> Single(value)

\* Faulty variant: a Null value is taken for an absent scope whatever the
\* binding is.
resolve_value_null_is_all(self, ctx, value) ==
    IF self.is_multiple
    THEN CASE value.tag = "List" -> Multiple(value.v)
           [] value.tag = "Null" -> All
           [] OTHER -> Panicked
    ELSE CASE value.tag = "Null" -> All
           [] OTHER -> Single(value)

\* The closure resolve() maps over the (ctx, value) pairs.
resolve_value(self, ctx, value) ==
    IF self.is_multiple
    THEN CASE value.tag = "List" -> Multiple(value.v)
           [] value.tag = "Null" ->
                IF TokenIsNone(ctx) THEN All
                ELSE IF self.context_field.nullable THEN Impossible ELSE Panicked
           [] OTHER -> Panicked
    ELSE CASE value.tag = "Null" ->
                IF TokenIsNone(ctx) THEN All
                ELSE IF self.context_field.nullable THEN Single(value) ELSE Panicked
           [] OTHER -> Single(value)

NoCall == [call |-> "none"]

Hinted(h) ==
    /\ hint' = h
    /\ UNCHANGED <<trace_bound, complete, expected_results, expected_pos, trace_rows, next_op,
                   iters, neighbors, stack, pc, fatal, last, hist, vertex_info>>

\* The adapter asks its view for the statically known value of a property.
AskStaticFieldValue ==
    \E field_name \in FieldNames :
        Hinted([call |-> "static_field_value", field_name |-> field_name,
                result |-> static_field_value(vertex_info, field_name)])

\* The adapter asks the view of the vertex it stands on for a tagged value.
AskLocalDynamicFieldValue ==
    \E field_name \in FieldNames :
        Hinted([call |-> "dynamic_field_value",
                field_name |-> field_name,
                result |-> LocalQueryInfo_dynamic_field_value(vertex_info, field_name),
                view |-> "Local"])

\* The adapter asks the view of a vertex further along for a tagged value.
AskNeighboringDynamicFieldValue ==
    \E field_name \in FieldNames, starting_vertex \in StartingVids :
        Hinted([call |-> "dynamic_field_value",
                field_name |-> field_name,
                starting_vertex |-> starting_vertex,
                result |-> NeighboringQueryInfo_dynamic_field_value(vertex_info, starting_vertex,
                                                                    field_name),
                view |-> "Neighboring"])

\* The handle the adapter holds, if any.
Handle ==
    CASE hint.call = "dynamic_field_value" -> hint.result
      [] hint.call = "resolve" /\ hint.result # Panicked -> <<hint.self>>
      [] OTHER -> <<>>

\* DynamicallyResolvedValue::resolve, one context of the stream at a time.
resolve ==
    /\ Handle # <<>>
    /\ \E ctx \in ResolveContexts :
        LET self == Handle[1]
            value == compute_context_field_with_separate_value(ctx)
        IN  Hinted([value |-> value,
                    call |-> "resolve",
                    self |-> self,
                    ctx |-> ctx,
                    result |-> resolve_value(self, ctx, value)])

\* The candidates merge can be applied to.
Candidates ==
    {Impossible, All} \cup { Single(value) : value \in HintValues }
        \cup { Multiple(values) : values \in UNION { [1..n -> HintValues] : n \in 0..MaxValues } }

\* One application of CandidateValue::merge.
ApplyMerge ==
    \E self \in Candidates, other \in Candidates :
        Hinted([call |-> "merge", self |-> self, other |-> other,
                result |-> merge(self, other)])

InitMerge ==
    /\ trace_bound = MaxTrace
    /\ complete = None
    /\ Fresh
    /\ vertex_info = None
    /\ hint = NoCall

SpecMerge == InitMerge /\ [][ApplyMerge]_vars

\* The handles dynamic_field_value can have returned.
Handles ==
    { DynamicallyResolvedValue(vid, component_of, ContextField(tag_vid), is_multiple) :
        vid \in CurrentVids, component_of \in StartingVids, tag_vid \in StartingVids,
        is_multiple \in BOOLEAN }

\* resolve(adapter, contexts) is called: nothing is pulled yet.
InitResolve ==
    /\ trace_bound = MaxTrace
    /\ complete = None
    /\ Fresh
    /\ vertex_info = None
    /\ hint \in { [call |-> "resolve",
                   pulled |-> 0,
                   self |-> self,
                   contexts |-> contexts,
                   out |-> <<>>,
                   panicked |-> FALSE] :
                    self \in Handles,
                    contexts \in UNION { [1..n -> ResolveContexts] : n \in 0..MaxContexts } }

\* next() on the stream resolve returned: the helper's next pair goes
\* through the closure.
resolve_next ==
    /\ hint.call = "resolve"
    /\ ~hint.panicked
    /\ hint.pulled < Len(hint.contexts)
    /\ LET ctx == hint.contexts[hint.pulled + 1]
           value == compute_context_field_with_separate_value(ctx)
           candidate == resolve_value(hint.self, ctx, value)
       IN  Hinted([hint EXCEPT
                    !.pulled = @ + 1,
                    !.panicked = (candidate = Panicked),
                    !.out = IF candidate = Panicked THEN @
                            ELSE Append(@, [candidate |-> candidate, ctx |-> ctx])])

SpecResolve == InitResolve /\ [][resolve_next]_vars

\* The edges and folds of the component (IREdge, IRFold), in the order the
\* query names them: the i-th has Eid PathEids + i, the edges on the way to
\* the vertex having taken the Eids before.  `fold` tells component.folds
\* from component.edges; both maps are walked in Eid order.
EdgeNames == {"d", "e"}
FromVids == {1, 3}
PathEids == 2
EdgeKinds ==
    { [optional |-> FALSE, recursive |-> FALSE, fold |-> FALSE],
      [optional |-> TRUE, recursive |-> FALSE, fold |-> FALSE],
      [optional |-> FALSE, recursive |-> TRUE, fold |-> FALSE],
      [optional |-> FALSE, recursive |-> FALSE, fold |-> TRUE] }
\* An edge or fold of the vertex, or a plain edge of another vertex.
EdgeShapes ==
    { shape \in [from_vid : FromVids, edge_name : EdgeNames, kind : EdgeKinds] :
        shape.from_vid \notin CurrentVids
            => ~(shape.kind.optional \/ shape.kind.recursive \/ shape.kind.fold) }
ComponentEdges(n) ==
    { [i \in 1..n |->
            [eid |-> PathEids + i,
             kind |-> shapes[i].kind,
             from_vid |-> shapes[i].from_vid,
             edge_name |-> shapes[i].edge_name,
             to_vid |-> 4]] :
        shapes \in [1..n -> EdgeShapes] }

\* The NeighboringQueryInfo views of the vertex: where the adapter stands
\* and the edges from there to the vertex.
NeighborViews ==
    { [starting_vertex |-> 1, neighbor_path |-> <<1, 2>>],
      [starting_vertex |-> 2, neighbor_path |-> <<2>>] }

\* EdgeInfo, with the NeighboringQueryInfo of its destination.
EdgeInfo(eid, optional, recursive, folded, destination) ==
    [eid |-> eid, optional |-> optional, recursive |-> recursive, folded |-> folded,
     destination |-> destination]

LocalQueryInfo_make_non_folded_edge_info(current_vertex, edge) ==
    EdgeInfo(edge.eid, edge.kind.optional, edge.kind.recursive, FALSE,
             [starting_vertex |-> current_vertex,
              neighbor_path |-> <<edge.eid>>,
              neighbor_vertex |-> edge.to_vid])

LocalQueryInfo_make_folded_edge_info(current_vertex, fold) ==
    EdgeInfo(fold.eid, TRUE, FALSE, TRUE,
             [starting_vertex |-> current_vertex,
              neighbor_path |-> <<fold.eid>>,
              neighbor_vertex |-> fold.to_vid])

\* Faulty variant: the path starts over at the edge crossed.
NeighboringQueryInfo_make_non_folded_edge_info_restart(self, edge) ==
    EdgeInfo(edge.eid, edge.kind.optional, edge.kind.recursive, FALSE,
             [starting_vertex |-> self.starting_vertex,
              neighbor_path |-> <<edge.eid>>,
              neighbor_vertex |-> edge.to_vid])

NeighboringQueryInfo_make_non_folded_edge_info(self, edge) ==
    EdgeInfo(edge.eid, edge.kind.optional, edge.kind.recursive, FALSE,
             [starting_vertex |-> self.starting_vertex,
              neighbor_path |-> Append(self.neighbor_path, edge.eid),
              neighbor_vertex |-> edge.to_vid])

NeighboringQueryInfo_make_folded_edge_info(self, fold) ==
    EdgeInfo(fold.eid, TRUE, FALSE, TRUE,
             [starting_vertex |-> self.starting_vertex,
              neighbor_path |-> Append(self.neighbor_path, fold.eid),
              neighbor_vertex |-> fold.to_vid])

\* Faulty variant: an @optional edge counts as required.
RequiredEdgeMatch_allow_optional(edge, vid, edge_name) ==
    /\ edge.from_vid = vid
    /\ ~edge.kind.recursive
    /\ edge.edge_name = edge_name

\* The closure of find in first_required_edge.
RequiredEdgeMatch(edge, vid, edge_name) ==
    /\ edge.from_vid = vid
    /\ ~edge.kind.optional
    /\ ~edge.kind.recursive
    /\ edge.edge_name = edge_name

\* The closures of find in first_edge, on component.edges and component.folds.
EdgeMatch(edge, vid, edge_name) ==
    edge.from_vid = vid /\ edge.edge_name = edge_name

\* map.values().find(..): the first position, in Eid order, among those given.
find(positions) ==
    IF positions = {} THEN <<>>
    ELSE <<CHOOSE i \in positions : \A j \in positions : i <= j>>

\* The search of first_required_edge: the edge found, if any.
first_required_edge(info, edge_name) ==
    LET first_matching_edge ==
            find({ i \in DOMAIN info.edges :
                    /\ ~info.edges[i].kind.fold
                    /\ RequiredEdgeMatch(info.edges[i], info.vid, edge_name) })
    IN  IF first_matching_edge = <<>> THEN <<>>
        ELSE <<info.edges[first_matching_edge[1]]>>

\* Faulty variant: the folds are searched before the edges.
first_edge_folds_first(info, edge_name) ==
    LET first_matching_edge ==
            find({ i \in DOMAIN info.edges :
                    /\ ~info.edges[i].kind.fold
                    /\ EdgeMatch(info.edges[i], info.vid, edge_name) })
        first_matching_fold ==
            find({ i \in DOMAIN info.edges :
                    /\ info.edges[i].kind.fold
                    /\ EdgeMatch(info.edges[i], info.vid, edge_name) })
    IN  IF first_matching_fold # <<>>
        THEN <<info.edges[first_matching_fold[1]]>>
        ELSE IF first_matching_edge # <<>>
             THEN <<info.edges[first_matching_edge[1]]>>
             ELSE <<>>

\* The search of first_edge: component.edges first, or else component.folds.
first_edge(info, edge_name) ==
    LET first_matching_edge ==
            find({ i \in DOMAIN info.edges :
                    /\ ~info.edges[i].kind.fold
                    /\ EdgeMatch(info.edges[i], info.vid, edge_name) })
        first_matching_fold ==
            find({ i \in DOMAIN info.edges :
                    /\ info.edges[i].kind.fold
                    /\ EdgeMatch(info.edges[i], info.vid, edge_name) })
    IN  IF first_matching_edge # <<>>
        THEN <<info.edges[first_matching_edge[1]]>>
        ELSE IF first_matching_fold # <<>>
             THEN <<info.edges[first_matching_fold[1]]>>
             ELSE <<>>

LocalQueryInfo_first_required_edge(info, edge_name) ==
    LET found == first_required_edge(info, edge_name) IN
    IF found = <<>> THEN <<>>
    ELSE <<LocalQueryInfo_make_non_folded_edge_info(info.vid, found[1])>>

LocalQueryInfo_first_edge(info, edge_name) ==
    LET found == first_edge(info, edge_name) IN
    IF found = <<>> THEN <<>>
    ELSE IF found[1].kind.fold
         THEN <<LocalQueryInfo_make_folded_edge_info(info.vid, found[1])>>
         ELSE <<LocalQueryInfo_make_non_folded_edge_info(info.vid, found[1])>>

NeighboringQueryInfo_first_required_edge(info, self, edge_name) ==
    LET found == first_required_edge(info, edge_name) IN
    IF found = <<>> THEN <<>>
    ELSE <<NeighboringQueryInfo_make_non_folded_edge_info(self, found[1])>>

NeighboringQueryInfo_first_edge(info, self, edge_name) ==
    LET found == first_edge(info, edge_name) IN
    IF found = <<>> THEN <<>>
    ELSE IF found[1].kind.fold
         THEN <<NeighboringQueryInfo_make_folded_edge_info(self, found[1])>>
         ELSE <<NeighboringQueryInfo_make_non_folded_edge_info(self, found[1])>>

\* The adapter looks up an edge of the vertex it stands on.
AskLocalFirstRequiredEdge ==
    \E edge_name \in EdgeNames :
        Hinted([call |-> "first_required_edge",
                result |-> LocalQueryInfo_first_required_edge(vertex_info, edge_name),
                view |-> "Local",
                edge_name |-> edge_name])

AskLocalFirstEdge ==
    \E edge_name \in EdgeNames :
        Hinted([call |-> "first_edge",
                result |-> LocalQueryInfo_first_edge(vertex_info, edge_name),
                view |-> "Local",
                edge_name |-> edge_name])

\* The adapter looks up an edge of a vertex further along.
AskNeighboringFirstRequiredEdge ==
    \E edge_name \in EdgeNames, self \in NeighborViews :
        Hinted([call |-> "first_required_edge",
                self |-> self,
                result |-> NeighboringQueryInfo_first_required_edge(vertex_info, self,
                                                                    edge_name),
                view |-> "Neighboring",
                edge_name |-> edge_name])

AskNeighboringFirstEdge ==
    \E edge_name \in EdgeNames, self \in NeighborViews :
        Hinted([call |-> "first_edge",
                self |-> self,
                result |-> NeighboringQueryInfo_first_edge(vertex_info, self, edge_name),
                view |-> "Neighboring",
                edge_name |-> edge_name])

InitEdges ==
    /\ trace_bound = MaxTrace
    /\ complete = None
    /\ Fresh
    /\ vertex_info \in { [vid |-> vid, edges |-> edges] :
                            edges \in UNION { ComponentEdges(n) : n \in 0..MaxEdges },
                            vid \in CurrentVids }
    /\ hint = NoCall

NextEdges ==
    \/ AskLocalFirstRequiredEdge
    \/ AskLocalFirstEdge
    \/ AskNeighboringFirstRequiredEdge
    \/ AskNeighboringFirstEdge

SpecEdges == InitEdges /\ [][NextEdges]_vars

\* Lookups chained through EdgeInfo::destination().  The query is a tree:
\* its k-th edge or fold has Eid k and leads from an earlier vertex to the
\* vertex it introduces, Vid k + 1.
ChainKinds == { kind \in EdgeKinds : ~kind.recursive }
ChainShapes == [from_vid : 1..MaxEdges, kind : ChainKinds]
QueryEdges(n) ==
    { [i \in 1..n |->
            [eid |-> i,
             kind |-> shapes[i].kind,
             from_vid |-> shapes[i].from_vid,
             edge_name |-> "e",
             to_vid |-> i + 1]] :
        shapes \in { f \in [1..n -> ChainShapes] : \A i \in 1..n : f[i].from_vid <= i } }

\* The view a lookup result leads to, seen as the VertexInfo of its vertex.
DestinationInfo(self) == [vid |-> self.neighbor_vertex, edges |-> vertex_info.edges]

\* A lookup on the LocalQueryInfo the adapter was given.
ChainLocalFirstRequiredEdge ==
    Hinted([call |-> "first_required_edge",
            result |-> LocalQueryInfo_first_required_edge(vertex_info, "e"),
            view |-> "Local",
            edge_name |-> "e",
            hops |-> 1])

ChainLocalFirstEdge ==
    Hinted([call |-> "first_edge",
            result |-> LocalQueryInfo_first_edge(vertex_info, "e"),
            view |-> "Local",
            edge_name |-> "e",
            hops |-> 1])

\* A lookup on the destination() of the EdgeInfo the latest lookup returned.
ChainNeighboringFirstRequiredEdge ==
    /\ hint.call # "none"
    /\ hint.result # <<>>
    /\ LET self == hint.result[1].destination IN
       Hinted([call |-> "first_required_edge",
               self |-> self,
               result |-> NeighboringQueryInfo_first_required_edge(DestinationInfo(self),
                                                                   self, "e"),
               view |-> "Neighboring",
               edge_name |-> "e",
               hops |-> hint.hops + 1])

ChainNeighboringFirstEdge ==
    /\ hint.call # "none"
    /\ hint.result # <<>>
    /\ LET self == hint.result[1].destination IN
       Hinted([call |-> "first_edge",
               self |-> self,
               result |-> NeighboringQueryInfo_first_edge(DestinationInfo(self), self, "e"),
               view |-> "Neighboring",
               edge_name |-> "e",
               hops |-> hint.hops + 1])

InitChain ==
    /\ trace_bound = MaxTrace
    /\ complete = None
    /\ Fresh
    /\ vertex_info \in UNION { { [vid |-> vid, edges |-> edges] :
                                    edges \in QueryEdges(n), vid \in 1 .. n + 1 } :
                                n \in 1..MaxEdges }
    /\ hint = NoCall

NextChain ==
    \/ ChainLocalFirstRequiredEdge
    \/ ChainLocalFirstEdge
    \/ ChainNeighboringFirstRequiredEdge
    \/ ChainNeighboringFirstEdge

SpecChain == InitChain /\ [][NextChain]_vars

\* The comparison filters a range could be read from.
LessThan(field, arg) == [field |-> field, op |-> "LessThan", arg |-> arg]
LessThanOrEqual(field, arg) == [field |-> field, op |-> "LessThanOrEqual", arg |-> arg]
GreaterThan(field, arg) == [field |-> field, op |-> "GreaterThan", arg |-> arg]
GreaterThanOrEqual(field, arg) == [field |-> field, op |-> "GreaterThanOrEqual", arg |-> arg]
RangeFilters ==
    { LessThan("f", Variable("hi")), LessThanOrEqual("f", Variable("hi")),
      GreaterThan("f", Variable("lo")), GreaterThanOrEqual("f", Variable("lo")) }
RangeArguments ==
    { [lo |-> Int64(lo), hi |-> Int64(5)] : lo \in {2, 3} }

\* VertexInfo::static_field_range: todo!(), a panic whatever the vertex is;
\* nothing is returned.
static_field_range(info, field_name) == [panicked |-> TRUE, returned |-> <<>>]

\* The adapter asks its view for the statically known range of a property.
AskStaticFieldRange ==
    \E field_name \in FieldNames :
        LET outcome == static_field_range(vertex_info, field_name)
        IN  Hinted([call |-> "static_field_range",
                    field_name |-> field_name,
                    result |-> outcome.returned,
                    panicked |-> outcome.panicked])

InitRange ==
    /\ trace_bound = MaxTrace
    /\ complete = None
    /\ Fresh
    /\ vertex_info \in { [vid |-> vid, arguments |-> arguments, filters |-> filters] :
                            filters \in UNION { [1..n -> RangeFilters] : n \in 0..MaxFilters },
                            arguments \in RangeArguments, vid \in CurrentVids }
    /\ hint = NoCall

SpecRange == InitRange /\ [][AskStaticFieldRange]_vars

InitHints ==
    /\ trace_bound = MaxTrace
    /\ complete = None
    /\ Fresh
    /\ vertex_info \in { [vid |-> vid, arguments |-> arguments, filters |-> filters] :
                            filters \in FilterLists, arguments \in Arguments,
                            vid \in CurrentVids }
    /\ hint = NoCall

NextHints ==
    \/ AskStaticFieldValue
    \/ AskLocalDynamicFieldValue
    \/ AskNeighboringDynamicFieldValue
    \/ resolve

SpecHints == InitHints /\ [][NextHints]_vars

(***************************************************************************)
(* FieldValue (trustfall_core ir/value.rs): equality and the conversions   *)
(* into a FieldValue.  `hint` holds the latest operation, its operands and *)
(* its result.  A float is a record: finite, with its value counted in     *)
(* halves (3 halves is 1.5), or NaN, or an infinity.                       *)
(***************************************************************************)
Uint64(n) == [tag |-> "Uint64", v |-> n]
Float64(f) == [tag |-> "Float64", v |-> f]
String(s) == [tag |-> "String", v |-> s]
Boolean(b) == [tag |-> "Boolean", v |-> b]
DateTimeUtc(t) == [tag |-> "DateTimeUtc", v |-> t]
Enum(s) == [tag |-> "Enum", v |-> s]

Finite(halves) == [halves |-> halves, class |-> "finite"]
NaN == [class |-> "nan"]
Infinity(sign) == [class |-> "infinite", sign |-> sign]
is_finite(f) == f.class = "finite"

FiniteFloats == { Finite(halves) : halves \in {0, 2, 3} }
Floats == FiniteFloats \cup {NaN, Infinity(1), Infinity(-1)}

\* The values eq is applied to; a Float64 holds a finite float.
ScalarValues ==
    {NULL} \cup { Int64(n) : n \in {0, 1} } \cup { Uint64(n) : n \in {0, 1} }
        \cup { Float64(f) : f \in FiniteFloats }
        \cup { String(str) : str \in {"a", "b"} } \cup { Enum(str) : str \in {"a", "b"} }
        \cup { Boolean(b) : b \in BOOLEAN } \cup { DateTimeUtc(t) : t \in {0, 1} }
ComparedValues ==
    ScalarValues \cup
    { List(values) : values \in {<<>>, <<Int64(1)>>, <<Uint64(1)>>, <<Int64(1), NULL>>,
                                 <<NULL, Int64(1)>>, <<List(<<Int64(1)>>)>>} }

\* The assert!s of the Float64 arm of eq.
eq_asserts(self, other) ==
    (self.tag = "Float64" /\ other.tag = "Float64")
        => is_finite(self.v) /\ is_finite(other.v)

\* Faulty variant: a signed and an unsigned integer are compared by number.
eq_numbers_across_variants(self, other) ==
    IF {self.tag, other.tag} = {"Int64", "Uint64"} THEN self.v = other.v
    ELSE self.tag = other.tag /\ self = other

\* impl PartialEq for FieldValue: the payloads of two values of the same
\* variant are compared, lists element by element; anything else is
\* settled by the discriminants.
RECURSIVE eq(_, _)
eq(self, other) ==
    CASE self.tag = "Uint64" /\ other.tag = "Uint64" -> self.v = other.v
      [] self.tag = "Int64" /\ other.tag = "Int64" -> self.v = other.v
      [] self.tag = "Float64" /\ other.tag = "Float64" -> self.v = other.v
      [] self.tag = "String" /\ other.tag = "String" -> self.v = other.v
      [] self.tag = "Boolean" /\ other.tag = "Boolean" -> self.v = other.v
      [] self.tag = "DateTimeUtc" /\ other.tag = "DateTimeUtc" -> self.v = other.v
      [] self.tag = "List" /\ other.tag = "List" ->
            /\ Len(self.v) = Len(other.v)
            /\ \A i \in DOMAIN self.v : eq(self.v[i], other.v[i])
      [] self.tag = "Enum" /\ other.tag = "Enum" -> self.v = other.v
      [] OTHER -> self.tag = other.tag

\* The bounds of i64 and u64 at the model's width.
I64_MIN == -(2 ^ (Bits - 1))
I64_MAX == 2 ^ (Bits - 1) - 1
U64_MAX == 2 ^ Bits - 1

Ok(x) == [v |-> x, ok |-> TRUE]
Err(e) == [ok |-> FALSE, e |-> e]

\* A JSON number as the parser keeps it: a non-negative integer that fits
\* u64, a negative integer that fits i64, or a float (any number written
\* with a fraction or an exponent, and any integer beyond those widths).
PosInt(n) == [n |-> n, repr |-> "PosInt"]
NegInt(n) == [n |-> n, repr |-> "NegInt"]
Float(f) == [f |-> f, repr |-> "Float"]
Numbers ==
    { PosInt(n) : n \in 0..U64_MAX } \cup { NegInt(n) : n \in I64_MIN..(-1) }
        \cup { Float(f) : f \in FiniteFloats \cup {Finite(2 * (U64_MAX + 1)),
                                                  Finite(2 * (I64_MIN - 1))} }

\* Number::as_i64, as_u64, as_f64.
as_i64(n) ==
    CASE n.repr = "PosInt" -> IF n.n <= I64_MAX THEN <<n.n>> ELSE <<>>
      [] n.repr = "NegInt" -> <<n.n>>
      [] OTHER -> <<>>
as_u64(n) == IF n.repr = "PosInt" THEN <<n.n>> ELSE <<>>
as_f64(n) == IF n.repr = "Float" THEN <<n.f>> ELSE <<Finite(2 * n.n)>>

\* Faulty variant: the unsigned reading is tried first.
convert_number_unsigned_first(n) ==
    CASE as_u64(n) # <<>> -> Ok(Uint64(as_u64(n)[1]))
      [] as_i64(n) # <<>> -> Ok(Int64(as_i64(n)[1]))
      [] as_f64(n) # <<>> -> Ok(Float64(as_f64(n)[1]))
      [] OTHER -> Err("unreachable")

\* convert_number_to_field_value: Int64 before Uint64 before Float64.
convert_number_to_field_value(n) ==
    CASE as_i64(n) # <<>> -> Ok(Int64(as_i64(n)[1]))
      [] as_u64(n) # <<>> -> Ok(Uint64(as_u64(n)[1]))
      [] as_f64(n) # <<>> -> Ok(Float64(as_f64(n)[1]))
      [] OTHER -> Err("unreachable")

\* A JSON number is converted.
ConvertNumber ==
    \E n \in Numbers :
        Hinted([call |-> "convert_number_to_field_value", n |-> n,
                result |-> convert_number_to_field_value(n)])

\* FiniteF64, a tuple struct around an f64.
FiniteF64(f) == <<f>>

\* impl From<FiniteF64> for FieldValue.
FieldValue_from_FiniteF64(f) == Float64(f[1])

\* Faulty variant: the float is wrapped without looking at it.
FiniteF64_try_from_unchecked(v) == Ok(FiniteF64(v))

\* impl TryFrom<f32> / TryFrom<f64> for FiniteF64; v.into() widens an f32
\* to the f64 of the same value.
FiniteF64_try_from(v) ==
    IF is_finite(v)
    THEN Ok(FiniteF64(v))
    ELSE Err(<<v, "not a finite (non-infinite, not-NaN) value">>)

\* impl TryFrom<Option<f32>> for FieldValue.
FieldValue_try_from_option_f32(value) ==
    IF value = <<>> THEN Ok(NULL)
    ELSE LET finite_f64 == FiniteF64_try_from(value[1])
         IN  IF finite_f64.ok THEN Ok(FieldValue_from_FiniteF64(finite_f64.v))
             ELSE finite_f64

\* impl TryFrom<Option<f64>> for FieldValue.
FieldValue_try_from_option_f64(value) ==
    IF value = <<>> THEN Ok(NULL)
    ELSE IF FiniteF64_try_from(value[1]).ok
         THEN Ok(FieldValue_from_FiniteF64(FiniteF64_try_from(value[1]).v))
         ELSE FiniteF64_try_from(value[1])

FloatTypes == {"f32", "f64"}

\* A float is checked, and turned into a FieldValue if it passes.
TryFromFloat ==
    \E float \in FloatTypes, v \in Floats :
        LET finite_f64 == FiniteF64_try_from(v)
        IN  Hinted([call |-> "FiniteF64::try_from",
                    v |-> v,
                    result |-> IF finite_f64.ok
                               THEN Ok(FieldValue_from_FiniteF64(finite_f64.v))
                               ELSE finite_f64,
                    float |-> float])

\* An optional float is converted.
TryFromOptionFloat ==
    \E float \in FloatTypes, value \in {<<>>} \cup { <<v>> : v \in Floats } :
        Hinted([value |-> value,
                call |-> "FieldValue::try_from",
                result |-> IF float = "f32" THEN FieldValue_try_from_option_f32(value)
                           ELSE FieldValue_try_from_option_f64(value),
                float |-> float])

\* The values Into<FieldValue> is applied to, each with its Rust type: the
\* integers of every width, bools, strings, and options and vectors of them.
IntTypes == {"i8", "i16", "i32", "i64"}
UintTypes == {"u8", "u16", "u32", "u64"}
StringTypes == {"String", "&String", "&str"}
Source(ty, v) == [v |-> v, ty |-> ty]
IntSources == { Source(ty, v) : ty \in IntTypes, v \in {-1, 0, 1} }
UintSources == { Source(ty, v) : ty \in UintTypes, v \in {0, 1} }
BoolSources == { Source("bool", v) : v \in BOOLEAN }
StringSources == { Source(ty, v) : ty \in StringTypes, v \in {"a"} }
OptionSources(inner) ==
    {Source("Option", <<>>)} \cup { Source("Option", <<x>>) : x \in inner }
VecSources(inner) ==
    { Source("Vec", items) : items \in UNION { [1..n -> inner] : n \in 0..MaxValues } }
SourceClasses ==
    {"int", "uint", "bool", "string", "Option<int>", "Option<uint>", "Option<bool>",
     "Option<string>", "Vec<int>", "Vec<uint>", "Vec<Option<int>>"}
Sources(class) ==
    CASE class = "int" -> IntSources
      [] class = "uint" -> UintSources
      [] class = "bool" -> BoolSources
      [] class = "string" -> StringSources
      [] class = "Option<int>" -> OptionSources(IntSources)
      [] class = "Option<uint>" -> OptionSources(UintSources)
      [] class = "Option<bool>" -> OptionSources(BoolSources)
      [] class = "Option<string>" -> OptionSources(StringSources)
      [] class = "Vec<int>" -> VecSources({ Source("i64", 0), Source("i64", 1) })
      [] class = "Vec<uint>" -> VecSources({ Source("u8", 0), Source("u8", 1) })
      [] class = "Vec<Option<int>>" -> VecSources(OptionSources({ Source("i32", 1) }))

\* impl_field_value_from_int!: Self::Int64(v.into()), the same number.
FieldValue_from_int(v) == Int64(v)

\* Faulty variant: an unsigned integer is stored as a signed one.
FieldValue_from_uint_as_int(v) == Int64(v)

\* impl_field_value_from_uint!: Self::Uint64(v.into()), the same number.
FieldValue_from_uint(v) == Uint64(v)

\* impl From<..> for FieldValue: integers, bool, the strings, Option<T>,
\* and Vec<T> through FromIterator.
RECURSIVE into(_)
into(source) ==
    CASE source.ty \in IntTypes -> FieldValue_from_int(source.v)
      [] source.ty \in UintTypes -> FieldValue_from_uint(source.v)
      [] source.ty = "bool" -> Boolean(source.v)
      [] source.ty \in StringTypes -> String(source.v)
      [] source.ty = "Option" -> IF source.v = <<>> THEN NULL ELSE into(source.v[1])
      [] source.ty = "Vec" -> List([i \in DOMAIN source.v |-> into(source.v[i])])

\* A value is converted into a FieldValue.
Into ==
    \E class \in SourceClasses : \E source \in Sources(class) :
        Hinted([call |-> "into", result |-> into(source), source |-> source])

\* Faulty variant: the cast `u as i64`, which wraps around.
u64_as_i64(u) == <<IF u <= I64_MAX THEN u ELSE u - 2 ^ Bits>>

\* u64::try_into::<i64>().ok() and i64::try_into::<u64>().ok(): the number
\* when the target type holds it.
u64_try_into_i64(u) == IF u <= I64_MAX THEN <<u>> ELSE <<>>
i64_try_into_u64(i) == IF i >= 0 THEN <<i>> ELSE <<>>

\* FieldValue::as_i64 and FieldValue::as_u64.
FieldValue_as_i64(self) ==
    CASE self.tag = "Uint64" -> u64_try_into_i64(self.v)
      [] self.tag = "Int64" -> <<self.v>>
      [] OTHER -> <<>>

FieldValue_as_u64(self) ==
    CASE self.tag = "Uint64" -> <<self.v>>
      [] self.tag = "Int64" -> i64_try_into_u64(self.v)
      [] OTHER -> <<>>

\* The values the accessors are called on: every integer of both variants
\* and values of the other variants.
IntegerValues ==
    { Int64(n) : n \in I64_MIN .. I64_MAX } \cup { Uint64(n) : n \in 0 .. U64_MAX }

\* A value is read as an integer.
AsInteger ==
    \E self \in IntegerValues \cup ComparedValues :
        Hinted([call |-> "as_integer",
                self |-> self,
                i64 |-> FieldValue_as_i64(self),
                u64 |-> FieldValue_as_u64(self)])

\* Two values are compared.
Compare ==
    \E self \in ComparedValues, other \in ComparedValues :
        Hinted([call |-> "eq",
                self |-> self,
                other |-> other,
                result |-> eq(self, other),
                panicked |-> ~eq_asserts(self, other)])

InitValue ==
    /\ trace_bound = MaxTrace
    /\ complete = None
    /\ Fresh
    /\ vertex_info = None
    /\ hint = NoCall

NextValue ==
    \/ Compare
    \/ ConvertNumber
    \/ TryFromFloat
    \/ TryFromOptionFloat
    \/ Into
    \/ AsInteger

SpecValue == InitValue /\ [][NextValue]_vars

\* A parsed query value (async_graphql_value::Value).  The payloads of
\* Binary, Variable and Object are not looked at by the conversion.
Value_Null == [tag |-> "Null"]
Value_Number(n) == [tag |-> "Number", v |-> n]
Value_String(s) == [tag |-> "String", v |-> s]
Value_Boolean(b) == [tag |-> "Boolean", v |-> b]
Value_List(l) == [tag |-> "List", v |-> l]
Value_Enum(n) == [tag |-> "Enum", v |-> n]
Value_Binary == [tag |-> "Binary"]
Value_Variable == [tag |-> "Variable"]
Value_Object == [tag |-> "Object"]

\* The values converted: the nine variants, lists of up to MaxValues scalars
\* and lists of up to MaxValues lists and scalars.
ScalarQueryValues ==
    {Value_Null, Value_Number(PosInt(1)), Value_Number(PosInt(U64_MAX)),
     Value_Number(NegInt(-1)), Value_Number(Float(Finite(3))), Value_String("a"),
     Value_Boolean(TRUE), Value_Enum("a"), Value_Binary, Value_Variable, Value_Object}
Lists(items) ==
    { Value_List(l) : l \in UNION { [1..n -> items] : n \in 0..MaxValues } }
InnerLists == Lists({Value_Number(PosInt(1)), Value_String("a"), Value_Variable})
QueryValues ==
    ScalarQueryValues \cup InnerLists \cup Lists(InnerLists \cup {Value_Null, Value_Binary})

\* Faulty variant: the elements that fail are left out of the list.
collect_converted(results) ==
    LET RECURSIVE kept(_)
        kept(i) ==
            IF i > Len(results) THEN <<>>
            ELSE (IF results[i].ok THEN <<results[i].v>> ELSE <<>>) \o kept(i + 1)
    IN  Ok(List(kept(1)))

\* .collect::<Result<FieldValue, _>>() over the converted elements: the first
\* error, or the List of all of them.
collect(results) ==
    LET failed == { i \in DOMAIN results : ~results[i].ok } IN
    IF failed # {}
    THEN results[CHOOSE i \in failed : \A j \in failed : i <= j]
    ELSE Ok(List([i \in DOMAIN results |-> results[i].v]))

\* impl TryFrom<Value> for FieldValue.
RECURSIVE FieldValue_try_from(_)
FieldValue_try_from(value) ==
    CASE value.tag = "Null" -> Ok(NULL)
      [] value.tag = "Number" -> convert_number_to_field_value(value.v)
      [] value.tag = "String" -> Ok(String(value.v))
      [] value.tag = "Boolean" -> Ok(Boolean(value.v))
      [] value.tag = "List" ->
            collect([i \in DOMAIN value.v |-> FieldValue_try_from(value.v[i])])
      [] value.tag = "Enum" -> Ok(Enum(value.v))
      [] value.tag = "Binary" -> Err("Binary values are not supported")
      [] value.tag = "Variable" -> Err("Cannot use a variable reference")
      [] value.tag = "Object" -> Err("Object values are not supported")

\* A query value is converted, once.
TryFromValue ==
    /\ hint = NoCall
    /\ \E value \in QueryValues :
        Hinted([value |-> value,
                call |-> "FieldValue::try_from(Value)",
                result |-> FieldValue_try_from(value)])

SpecParse == InitValue /\ [][TryFromValue]_vars

(***************************************************************************)
(* The Hacker News adapter (trustfall examples/hackernews/adapter.rs): its  *)
(* starting edges.  What the network answers is an input: the list of       *)
(* story ids or an error, and for each id an item, nothing or an error.     *)
(***************************************************************************)
MaxStories == 3

\* top(Some(30)) of front_page.
FrontPageMax == 30

\* The answers to get_item and get_user: Ok(Some(..)), Ok(None), Err(..).
FetchOutcomes == {"Some", "None", "Err"}

\* The answers to get_top_stories and to the request for newstories.json:
\* Err, or the ids 1..k, given here with the answer get_item has for each.
StoryFetches ==
    {Err("fetch")} \cup { Ok(items) : items \in UNION { [1..k -> FetchOutcomes] :
                                                        k \in 0..MaxStories } }

\* The max parameter of the edge: absent, or the value the query gives.
MaxParameters ==
    {<<>>} \cup { <<Int64(n)>> : n \in -1 .. MaxStories }
           \cup { <<Uint64(n)>> : n \in {1, MaxStories + 1} } \cup {<<String("a")>>}

\* A stream, or the panic of an unwrap().
Stream(vertices) == [panicked |-> FALSE, stream |-> vertices]
Panic == [panicked |-> TRUE, stream |-> <<>>]

\* Faulty variant: max is not applied.
take_all(ids, max) == ids

\* .take(max.unwrap_or(usize::MAX)): the first max ids, all of them without max.
take(ids, max) ==
    IF max = <<>> \/ max[1] >= Len(ids) THEN ids ELSE SubSeq(ids, 1, max[1])

\* .filter_map(..): the vertex of every id whose item came, in the order of
\* the ids; an error is printed and the id skipped like one without item.
RECURSIVE filter_map(_, _)
filter_map(ids, items) ==
    IF ids = <<>> THEN <<>>
    ELSE (IF items[Head(ids)] = "Some" THEN <<Head(ids)>> ELSE <<>>)
            \o filter_map(Tail(ids), items)

\* HackerNewsAdapter::top and ::latest_stories: the list of ids is unwrapped.
top(max, fetch) ==
    IF ~fetch.ok THEN Panic
    ELSE Stream(filter_map(take([i \in DOMAIN fetch.v |-> i], max), fetch.v))

latest_stories(max, fetch) ==
    IF ~fetch.ok THEN Panic
    ELSE Stream(filter_map(take([i \in DOMAIN fetch.v |-> i], max), fetch.v))

front_page(fetch) == top(<<FrontPageMax>>, fetch)

\* HackerNewsAdapter::user.
user(outcome) == IF outcome = "Some" THEN Stream(<<"user">>) ELSE Stream(<<>>)

\* parameters.get("max").map(|v| v.as_u64().unwrap() as usize)
max_parameter(parameter) ==
    IF parameter = <<>> THEN Ok(<<>>)
    ELSE IF FieldValue_as_u64(parameter[1]) = <<>> THEN Err("unwrap")
    ELSE Ok(FieldValue_as_u64(parameter[1]))

\* resolve_starting_vertices, edge by edge, asked once.
ResolveFrontPage ==
    /\ hint = NoCall
    /\ \E fetch \in StoryFetches :
        Hinted([call |-> "resolve_starting_vertices",
                result |-> front_page(fetch),
                edge_name |-> "FrontPage",
                fetch |-> fetch])

ResolveTop ==
    /\ hint = NoCall
    /\ \E fetch \in StoryFetches, parameter \in MaxParameters :
        LET max == max_parameter(parameter) IN
        Hinted([call |-> "resolve_starting_vertices",
                result |-> IF max.ok THEN top(max.v, fetch) ELSE Panic,
                edge_name |-> "Top",
                fetch |-> fetch,
                parameter |-> parameter])

ResolveLatestStory ==
    /\ hint = NoCall
    /\ \E fetch \in StoryFetches, parameter \in MaxParameters :
        LET max == max_parameter(parameter) IN
        Hinted([call |-> "resolve_starting_vertices",
                result |-> IF max.ok THEN latest_stories(max.v, fetch) ELSE Panic,
                edge_name |-> "LatestStory",
                fetch |-> fetch,
                parameter |-> parameter])

ResolveUser ==
    /\ hint = NoCall
    /\ \E outcome \in FetchOutcomes :
        Hinted([call |-> "resolve_starting_vertices",
                result |-> user(outcome),
                edge_name |-> "User",
                outcome |-> outcome])

NextHackerNews ==
    \/ ResolveFrontPage
    \/ ResolveTop
    \/ ResolveLatestStory
    \/ ResolveUser

SpecHackerNews == InitValue /\ [][NextHackerNews]_vars

(***************************************************************************)
(* Properties of the replay.                                               *)
(***************************************************************************)

\* C1: a replay that assert_interpreted_results accepts has yielded exactly
\* the expected rows: trace_iter gave the rows of expected_results, the same
\* rows in the same order, every one of them matched, and when complete is
\* true the pull after the last row returned None, no extra row.
C1_ReplayYieldsExpectedRows ==
    pc = "returned" =>
        /\ Len(trace_rows) = Len(expected_results) + 1
        /\ SubSeq(trace_rows, 1, Len(expected_results)) = expected_results
        /\ expected_pos = Len(expected_results)
        /\ complete = TRUE => trace_rows[Len(trace_rows)] = None

\* A complete replay of two different rows is accepted.
C1_Witness ==
    /\ pc = "returned"
    /\ complete = TRUE
    /\ Len(expected_results) = 2
    /\ expected_results[1] # expected_results[2]

\* The streams of resolve_property, resolve_coercion and resolve_neighbors.
Streams ==
    {s \in DOMAIN iters : iters[s].kind \in {"Property", "Coercion", "Neighbors"}}

\* Stream s is inside next(), blocked in self.contexts.next().
Waiting(s) == \E i \in 1 .. Len(stack) : stack[i].it = s

IsContext(x) == x # None

\* The contexts the input stream of s has produced, in order.
PulledContexts(s) == SelectSeq(hist[s].pulled, IsContext)

\* C2: in every stream the number of calls of self.contexts.next() is the
\* number of AdvanceInputIterator ops the stream has taken, and the input
\* stream has been advanced only by those calls: it has produced one item per
\* call, but for the call a stream inside next() is blocked in.
C2_InputAdvancedOncePerAdvanceOp ==
    \A s \in Streams :
        /\ hist[s].contexts_next = hist[s].advance_ops
        /\ hist[s].contexts_next = Len(hist[s].pulled) + (IF Waiting(s) THEN 1 ELSE 0)

\* A stream took its second AdvanceInputIterator op and is blocked in its
\* second pull, the first having returned.
C2_Witness ==
    \E s \in Streams :
        hist[s].advance_ops = 2 /\ Len(hist[s].pulled) = 1 /\ Waiting(s)

\* C3: a stream that reached OutputIteratorExhausted has yielded as many
\* outputs as its input stream produced contexts, and its k-th output carries
\* the k-th of those contexts.
C3_OutputsPairWithInputs ==
    \A s \in Streams :
        iters[s].exhausted =>
            /\ Len(hist[s].yielded) = Len(PulledContexts(s))
            /\ \A k \in 1 .. Len(hist[s].yielded) :
                    hist[s].yielded[k].context = PulledContexts(s)[k]

\* A stream is exhausted after yielding two different contexts.
C3_Witness ==
    \E s \in Streams :
        /\ iters[s].exhausted
        /\ Len(hist[s].yielded) = 2
        /\ hist[s].yielded[1].context # hist[s].yielded[2].context

\* C4: the k-th context a stream yields is the k-th context its input stream
\* produced, and it is the context recorded in the YieldFrom op taken for it.
C4_YieldedContextIsInputContext ==
    \A s \in Streams :
        \A k \in 1 .. Len(hist[s].yielded) :
            /\ k <= Len(PulledContexts(s))
            /\ hist[s].yielded[k].context = PulledContexts(s)[k]
            /\ hist[s].yielded[k].context = hist[s].yielded[k].trace_context

\* A stream that is not exhausted yielded its second context, which is not
\* its first.
C4_Witness ==
    \E s \in Streams :
        /\ ~iters[s].exhausted
        /\ Len(hist[s].yielded) = 2
        /\ hist[s].yielded[1].context # hist[s].yielded[2].context

\* C5: when the interpreter feeds a context into a stream, the stream goes on
\* only by taking a YieldInto op, and the context recorded in that op is the
\* context fed.
C5_FedContextEqualsYieldInto ==
    (last.who = "contexts_next" /\ last.input # None) =>
        /\ pc = "running" => last.ops # <<>>
        /\ last.ops # <<>> =>
              /\ last.ops[1].content.tag = "YieldInto"
              /\ last.ops[1].content.context = last.input

\* The interpreter fed c2 into a stream of the second adapter call, which
\* went on.
C5_Witness ==
    /\ pc = "running"
    /\ last.who = "contexts_next"
    /\ last.input = "c2"
    /\ last.it = 2

CallFns ==
    {"ResolveStartingVertices", "ResolveProperty", "ResolveNeighbors",
     "ResolveCoercion"}

\* The recorded arguments of the Call content c are those of the call q.
ArgsMatch(c, q) ==
    /\ c.vid = q.vid
    /\ c.fn \in {"ResolveProperty", "ResolveCoercion"} =>
            c.type_name = q.type_name /\ c.name = q.name
    /\ c.fn = "ResolveNeighbors" =>
            c.type_name = q.type_name /\ c.eid = q.crossing_eid

\* C6: a step of one of the four adapter calls moves the cursor past at most
\* one op, and a call that returns its iterator has moved it past exactly one
\* op, which has no parent_opid and is a Call of the same primitive whose
\* recorded arguments are those of the call.
C6_CallConsumesOneMatchingCallOp ==
    [][last'.who \in CallFns =>
        /\ next_op' \in {next_op, next_op + 1}
        /\ pc' = "running" =>
              /\ next_op' = next_op + 1
              /\ Len(last'.ops) = 1
              /\ last'.ops[1].opid = next_op'
              /\ last'.ops[1].parent = 0
              /\ IsCall(last'.ops[1].content, last'.who)
              /\ ArgsMatch(last'.ops[1].content, last'.input)]_vars

\* resolve_neighbors returned its iterator for the second Call op of the trace.
C6_Witness ==
    /\ pc = "running"
    /\ last.who = "ResolveNeighbors"
    /\ last.input.crossing_eid = 1
    /\ next_op = 2

\* C7: the k-th neighbor a neighbor stream has yielded came from a
\* ResolveNeighborsInner op of index k - 1.
C7_NeighborIndicesContiguous ==
    \A n \in DOMAIN neighbors :
        \A k \in 1 .. Len(hist[n].yielded) : hist[n].yielded[k].index = k - 1

\* A neighbor stream yielded three neighbors.
C7_Witness ==
    \E n \in DOMAIN neighbors : Len(hist[n].yielded) = 3

\* C8: a stream is created by a step that takes a Call op and is named by
\* the opid of that op, a neighbor stream by a step whose last op is a
\* YieldFrom(ResolveNeighborsOuter) op and is named by the opid of that op;
\* every op a stream or a neighbor stream takes has the opid that names it
\* as its parent_opid.
C8_OpsBelongToTheirStream ==
    [][/\ \A s \in (DOMAIN iters') \ (DOMAIN iters) :
            /\ Len(last'.ops) = 1
            /\ last'.ops[1].opid = s
            /\ last'.ops[1].content.tag = "Call"
       /\ \A n \in (DOMAIN neighbors') \ (DOMAIN neighbors) :
            /\ last'.ops # <<>>
            /\ last'.ops[Len(last'.ops)].opid = n
            /\ last'.ops[Len(last'.ops)].content.tag = "YieldFrom"
            /\ last'.ops[Len(last'.ops)].content.yv = "ResolveNeighborsOuter"
       /\ last'.who \in {"next", "contexts_next", "neighbor_next"} =>
            \A i \in 1 .. Len(last'.ops) : last'.ops[i].parent = last'.it]_vars

\* A neighbor stream took an op, whose parent_opid is not the opid of the
\* Call op of resolve_neighbors.
C8_Witness ==
    /\ pc = "running"
    /\ last.who = "neighbor_next"
    /\ last.ops # <<>>
    /\ last.it \notin DOMAIN iters

\* C9 as stated: a replay goes on after a pull of the input stream only if
\* the op right after the AdvanceInputIterator op has the same parent and is
\* a YieldInto op for a context, an InputIteratorExhausted op for none.
C9_AsStated ==
    (pc = "running" /\ last.who = "contexts_next") =>
        /\ last.ops[1].opid = last.after + 1
        /\ last.ops[1].parent = last.it
        /\ last.input # None <=> last.ops[1].content.tag = "YieldInto"
        /\ last.input = None <=> last.ops[1].content.tag = "InputIteratorExhausted"

\* C9: when self.contexts.next() returns, the stream goes on only by taking
\* the op then under the shared cursor, which comes after the
\* AdvanceInputIterator op, has the parent_opid of the stream, and is a
\* YieldInto op of that context if the input stream produced a context and an
\* InputIteratorExhausted op if it produced nothing.
C9_OpUnderCursorAnswersAdvance ==
    [][last'.who = "contexts_next" =>
        /\ pc' = "running" => last'.ops # <<>>
        /\ last'.ops # <<>> =>
              /\ last'.ops[1].opid = next_op + 1
              /\ last'.ops[1].opid > last'.after
              /\ last'.ops[1].parent = last'.it
              /\ last'.input # None =>
                    /\ last'.ops[1].content.tag = "YieldInto"
                    /\ last'.ops[1].content.context = last'.input
              /\ last'.input = None =>
                    last'.ops[1].content.tag = "InputIteratorExhausted"]_vars

\* A stream went on with a YieldInto op that is not next to its
\* AdvanceInputIterator op: other ops were consumed during the pull.
C9_Witness ==
    /\ pc = "running"
    /\ last.who = "contexts_next"
    /\ last.ops # <<>>
    /\ last.ops[1].content.tag = "YieldInto"
    /\ last.ops[1].opid > last.after + 1

\* C10: when the loop of assert_interpreted_results goes on after an expected
\* row, the op it took is the one right after the ops the adapter consumed
\* while that row was computed, and it is a ProduceQueryResult op whose row is
\* both the expected row and the row the replay produced.
C10_RowFollowedByProduceQueryResult ==
    [][(last'.who = "row" /\ pc' = "running") =>
        /\ expected_pos' = expected_pos + 1
        /\ Len(last'.ops) = 1
        /\ last'.ops[1].opid = next_op + 1
        /\ next_op' = next_op + 1
        /\ last'.ops[1].content.tag = "ProduceQueryResult"
        /\ last'.ops[1].content.row = expected_results'[expected_pos']
        /\ last'.ops[1].content.row = trace_rows'[expected_pos']]_vars

\* The second expected row is matched after adapter ops were consumed.
C10_Witness ==
    /\ pc = "running"
    /\ last.who = "row"
    /\ expected_pos = 2
    /\ next_op > 2

\* The ops the cursor passed during the latest handler.
Consumed == next_op - last.first

\* The op contents a handler can go on with.
ExpectedContents(who, it) ==
    IF who \in CallFns THEN {c \in CallContents : c.fn = who}
    ELSE IF who = "row" THEN [tag : {"ProduceQueryResult"}, row : Rows]
    ELSE IF who = "neighbor_next"
    THEN {c \in IterContents :
            \/ c.tag = "OutputIteratorExhausted"
            \/ c.tag = "YieldFrom" /\ c.yv = "ResolveNeighborsInner"}
    ELSE IF iters[it].kind = "StartingVertices"
    THEN {c \in IterContents :
            \/ c.tag = "OutputIteratorExhausted"
            \/ c.tag = "YieldFrom" /\ c.yv = "ResolveStartingVertices"}
    ELSE {c \in IterContents :
            \/ c.tag \in {"AdvanceInputIterator", "YieldInto",
                          "InputIteratorExhausted", "OutputIteratorExhausted"}
            \/ c.tag = "YieldFrom" /\ c.yv = YieldVariant(iters[it].kind)}

\* The value of a YieldFrom content, as the iterator hands it out.
Payload(c) ==
    IF c.yv = "ResolveStartingVertices" THEN [vertex |-> c.vertex]
    ELSE IF c.yv = "ResolveNeighborsInner" THEN [vertex |-> c.vertex, index |-> c.index]
    ELSE [context |-> c.context, trace_context |-> c.context]

\* The ops a stream of a kind reads: those of its input and its own yields.
StreamOps(kind, content) ==
    \/ content.tag = "OutputIteratorExhausted"
    \/ content.tag = "YieldFrom" /\ content.yv = YieldVariant(kind)
    \/ /\ kind # "StartingVertices"
       /\ content.tag \in {"AdvanceInputIterator", "YieldInto", "InputIteratorExhausted"}

\* The reader an op was recorded for: the adapter call of a Call op without
\* parent_opid, the result loop for a ProduceQueryResult op, the neighbor
\* stream or the stream named by the parent_opid for the others.
OwnedBy(op, who, it) ==
    CASE who \in CallFns -> op.parent = 0 /\ IsCall(op.content, who)
      [] who = "row" -> op.content.tag = "ProduceQueryResult"
      [] who = "neighbor_next" ->
            /\ op.parent = it
            /\ \/ op.content.tag = "OutputIteratorExhausted"
               \/ op.content.tag = "YieldFrom" /\ op.content.yv = "ResolveNeighborsInner"
      [] who \in {"next", "contexts_next"} ->
            /\ op.parent = it
            /\ it \in DOMAIN iters
            /\ StreamOps(iters[it].kind, op.content)
      [] OTHER -> FALSE

\* C30: every reader moves the one cursor of the trace; as long as the
\* replay has not aborted, the ops the latest reader moved it past are the
\* next ops of the trace in recorded order, none skipped, and each of them
\* was recorded for that reader: a reader that finds an op of another
\* reader under the cursor aborts the replay.
C30_PullsFollowRecordedOrder ==
    pc # "panic" =>
        /\ next_op = last.first + Len(last.ops)
        /\ \A i \in 1 .. Len(last.ops) :
            /\ last.ops[i].opid = last.first + i
            /\ pc = "running" => OwnedBy(last.ops[i], last.who, last.it)

\* Two streams are open, and the second went on with the fourth and fifth
\* ops of the trace once the engine answered its pull.
C30_Witness ==
    /\ pc = "running"
    /\ last.who = "contexts_next"
    /\ Cardinality(DOMAIN iters) = 2
    /\ Len(last.ops) = 2
    /\ next_op = 5

\* C31: a step never moves the cursor back; the ops a step takes are the
\* ops right after the place where the cursor stood, one opid after the
\* other, and the cursor ends behind the last op the step read: past the ops
\* taken and, when the step aborted on an op, past that op too.
C31_CursorOnlyMovesForward ==
    [][/\ next_op' >= next_op
       /\ last'.first = next_op
       /\ \A i \in 1 .. Len(last'.ops) : last'.ops[i].opid = next_op + i
       /\ next_op' - next_op \in
            IF pc' = "panic" THEN {Len(last'.ops), Len(last'.ops) + 1}
            ELSE {Len(last'.ops)}]_vars

\* The result loop took the fourth op of the trace, the ops before it having
\* been taken by other readers.
C31_Witness ==
    /\ pc = "running"
    /\ last.who = "row"
    /\ Len(last.ops) = 1
    /\ last.ops[1].opid = 4
    /\ next_op = 4

\* C32: a pull on a stream that has returned end-of-stream aborts the replay
\* and leaves the cursor where it stood, whichever the kind of the stream.
C32_PullAfterEndTakesNoOp ==
    [][(\/ /\ last'.who = "next"
           /\ last'.it \in DOMAIN iters
           /\ iters[last'.it].exhausted
        \/ /\ last'.who = "neighbor_next"
           /\ last'.it \in DOMAIN neighbors
           /\ neighbors[last'.it].exhausted)
       => pc' = "panic" /\ next_op' = next_op]_vars

\* C33: when assert_interpreted_results has returned with complete = true,
\* the cursor has passed every op of the trace.
C33_ReturnMeansTraceConsumed ==
    (pc = "returned" /\ complete = TRUE) => next_op = trace_bound

\* C34: as long as the loop runs, the engine's row stream has been pulled
\* once per expected row handed out; when assert_interpreted_results has
\* returned it has been pulled once more than there are expected rows,
\* whatever complete is, and with complete = true that last pull returned
\* end-of-stream.  An abort leaves the count at one of the two.
C34_OnePullMoreThanExpectedRows ==
    /\ pc = "running" => Len(trace_rows) = Len(expected_results)
    /\ pc = "panic" => Len(trace_rows) - Len(expected_results) \in {0, 1}
    /\ pc = "returned" =>
        /\ Len(trace_rows) = Len(expected_results) + 1
        /\ complete = TRUE => trace_rows[Len(trace_rows)] = None
        /\ expected_pos = Len(expected_results)

\* With complete = false the loop returned although the pull after the one
\* expected row gave another row; the pulls had taken four ops of the trace.
C34_Witness ==
    /\ pc = "returned"
    /\ complete = FALSE
    /\ Len(expected_results) = 1
    /\ trace_rows[2] # None
    /\ next_op = 4

\* C11: a handler that took an op it did not go on with has aborted the
\* replay; an aborted replay has handed nothing to the interpreter (no value,
\* no iterator); while the replay runs every op taken is of a kind its
\* handler expects; and a value handed to the interpreter is the payload of
\* the last op taken, a YieldFrom op the handler went on with.
C11_MismatchIsFatal ==
    /\ Consumed \in {Len(last.ops), Len(last.ops) + 1}
    /\ Consumed > Len(last.ops) => pc = "panic"
    /\ pc = "panic" =>
          /\ fatal # ""
          /\ last.ret = <<>>
          /\ iters = Empty
          /\ neighbors = Empty
    /\ pc = "running" =>
          \A i \in 1 .. Len(last.ops) :
              last.ops[i].content \in ExpectedContents(last.who, last.it)
    /\ last.ret # <<>> =>
          /\ pc = "running"
          /\ last.ops # <<>>
          /\ last.ops[Len(last.ops)].content.tag = "YieldFrom"
          /\ last.ret[1] = Payload(last.ops[Len(last.ops)].content)

\* A neighbor stream took a ResolveNeighborsInner op of a wrong index, after
\* four ops the replay went on with: the replay is aborted.
C11_Witness ==
    /\ pc = "panic"
    /\ fatal = "neighbor_index"
    /\ last.first = 4
    /\ Consumed = 1
    /\ last.ops = <<>>

\* The kind of iterator each adapter call returns.
KindOf(fn) ==
    CASE fn = "ResolveStartingVertices" -> "StartingVertices"
      [] fn = "ResolveProperty" -> "Property"
      [] fn = "ResolveCoercion" -> "Coercion"
      [] fn = "ResolveNeighbors" -> "Neighbors"

\* What the interpreter did and got in the latest handler, read off the ops
\* the handler took: which call it made, with which checked arguments.
CallReadOff(op) ==
    /\ last.who = op.content.fn
    /\ ArgsMatch(op.content, last.input)
    /\ op.content.fn # "ResolveNeighbors" => last.input.crossing_eid = 0
    /\ op.opid \in DOMAIN iters
    /\ iters[op.opid].kind = KindOf(op.content.fn)

\* Which iterator it pulled, what it fed into it and what it got back.
PullReadOff(ops) ==
    /\ \A i \in 1 .. Len(ops) : ops[i].parent = last.it
    /\ last.who = "contexts_next" <=>
            ops[1].content.tag \in {"YieldInto", "InputIteratorExhausted"}
    /\ last.who = "neighbor_next" <=> last.it \in DOMAIN neighbors
    /\ last.who = "next" => last.it \in DOMAIN iters
    /\ ops[1].content.tag = "YieldInto" => last.input = ops[1].content.context
    /\ ops[1].content.tag # "YieldInto" => last.input = None
    /\ last.ret = IF ops[Len(ops)].content.tag = "YieldFrom"
                  THEN <<Payload(ops[Len(ops)].content)>>
                  ELSE <<>>

\* Which row it produced and which row was expected.
RowReadOff(op) ==
    /\ trace_rows[expected_pos] = op.content.row
    /\ expected_results[expected_pos] = op.content.row

\* C12: a step of a replay that goes on takes the ops next under the cursor,
\* in trace order, and what the interpreter did in it (the adapter call and
\* its checked arguments, the iterator pulled, the context fed, the value
\* got back, the row produced) can be read off those ops; so two replays of
\* one trace that go on take the same ops and make the same calls, pulls and
\* rows.
C12_StepIsFunctionOfTrace ==
    (pc = "running" /\ last.who # "init") =>
        /\ last.ops # <<>>
        /\ \A i \in 1 .. Len(last.ops) : last.ops[i].opid = last.first + i
        /\ next_op = last.first + Len(last.ops)
        /\ IF last.ops[1].content.tag = "Call" THEN CallReadOff(last.ops[1])
           ELSE IF last.ops[1].content.tag = "ProduceQueryResult"
           THEN last.who = "row" /\ RowReadOff(last.ops[1])
           ELSE PullReadOff(last.ops)

\* The interpreter fed a context into a stream of the second adapter call
\* and got it back in the same step.
C12_Witness ==
    /\ pc = "running"
    /\ last.who = "contexts_next"
    /\ last.it = 2
    /\ Len(last.ops) = 2
    /\ last.ret # <<>>

(***************************************************************************)
(* Properties of the hints.                                                *)
(***************************************************************************)

\* The bindings a row can have for the vertex: a value for each property.
VertexRows == [FieldNames -> HintValues]

\* Whether a filter lets a vertex through.  A filter against a tag passes
\* or not depending on the tagged value, which the vertex does not decide.
Passes(row, filter_operation, arguments) ==
    CASE filter_operation.op = "IsNull" -> row[filter_operation.field] = NULL
      [] filter_operation.op = "IsNotNull" -> row[filter_operation.field] # NULL
      [] IsVariableFilter(filter_operation, "Equals") ->
            row[filter_operation.field] = arguments[filter_operation.arg.variable_name]
      [] IsVariableFilter(filter_operation, "OneOf") ->
            row[filter_operation.field] \in
                Elems(as_vec(arguments[filter_operation.arg.variable_name]))
      [] OTHER -> TRUE

\* The vertex bindings that can appear in an output row.
InOutput(row, info) ==
    \A i \in DOMAIN info.filters : Passes(row, info.filters[i], info.arguments)

\* C13: when static_field_value(f) returns Single(v), every output row that
\* binds the vertex has f = v; when it returns Multiple(list), f is in list.
C13_HintSoundness ==
    (/\ hint.call = "static_field_value"
     /\ hint.result # <<>>
     /\ hint.result[1].kind \in {"Single", "Multiple"})
    => \A row \in VertexRows :
          InOutput(row, vertex_info) => row[hint.field_name] \in Allowed(hint.result[1])

HasOp(info, op) == \E i \in DOMAIN info.filters : info.filters[i].op = op

\* C14: static_field_value returns Impossible when the vertex has both an
\* is_null and an is_not_null filter, whatever its other filters are.
C14_NullAndNotNullIsImpossible ==
    (/\ hint.call = "static_field_value"
     /\ HasOp(vertex_info, "IsNull")
     /\ HasOp(vertex_info, "IsNotNull"))
    => hint.result = <<Impossible>>

C14_Witness ==
    /\ hint.call = "static_field_value"
    /\ vertex_info.filters = <<Equals("f", Variable("x")), IsNotNull("g"), IsNull("f")>>
    /\ vertex_info.arguments.x = Int64(3)
    /\ hint.result = <<Impossible>>

\* The filters static_field_value draws values from, by position.
VariableFilters(info) ==
    { i \in DOMAIN info.filters :
        \/ IsVariableFilter(info.filters[i], "Equals")
        \/ IsVariableFilter(info.filters[i], "OneOf") }

\* What one such filter contributes.
Contribution(info, i) ==
    IF info.filters[i].op = "Equals"
    THEN Single(info.arguments[info.filters[i].arg.variable_name])
    ELSE Multiple(info.arguments[info.filters[i].arg.variable_name].v)

\* The values every contribution allows.
Intersection(info) ==
    { value \in HintValues :
        /\ HasOp(info, "IsNull") => value = NULL
        /\ \A i \in VariableFilters(info) : value \in Allowed(Contribution(info, i)) }

\* C15: without contradictory null filters, static_field_value is None when
\* the vertex has neither an is_null filter nor a `= $var` or `one_of $var`
\* filter; otherwise it allows exactly the values allowed by Single(Null)
\* (when is_null is present), by Single(arguments[var]) of every `= $var`
\* filter and by Multiple(arguments[var]) of every `one_of $var` filter; a
\* single contributing filter is returned as it is; and the only filter
\* `= $x` with x = 3 gives Single(3).
C15_MergesFilterValues ==
    (/\ hint.call = "static_field_value"
     /\ ~(HasOp(vertex_info, "IsNull") /\ HasOp(vertex_info, "IsNotNull")))
    => /\ hint.result = <<>>
            <=> (~HasOp(vertex_info, "IsNull") /\ VariableFilters(vertex_info) = {})
       /\ hint.result # <<>> => Allowed(hint.result[1]) = Intersection(vertex_info)
       /\ (~HasOp(vertex_info, "IsNull") /\ Cardinality(VariableFilters(vertex_info)) = 1)
            => \A i \in VariableFilters(vertex_info) :
                    hint.result = <<Contribution(vertex_info, i)>>
       /\ (HasOp(vertex_info, "IsNull") /\ VariableFilters(vertex_info) = {})
            => hint.result = <<Single(NULL)>>
       /\ (vertex_info.filters = <<Equals("f", Variable("x"))>>
                /\ vertex_info.arguments.x = Int64(3))
            => hint.result = <<Single(Int64(3))>>

C15_Witness ==
    /\ hint.call = "static_field_value"
    /\ vertex_info.filters =
            <<OneOf("f", Variable("xs")), Equals("f", ContextField(1)), Equals("f", Variable("x"))>>
    /\ vertex_info.arguments.x = Int64(3)
    /\ vertex_info.arguments.xs = List(<<Int64(3), Int64(4)>>)
    /\ hint.result = <<Single(Int64(3))>>

ContextTagFilters(info) ==
    { i \in DOMAIN info.filters :
        /\ info.filters[i].op \in {"Equals", "OneOf"}
        /\ info.filters[i].arg.kind = "Tag"
        /\ info.filters[i].arg.ref = "ContextField" }

First(positions) == CHOOSE i \in positions : \A j \in positions : i <= j

\* Whether a dynamic_field_value result is the handle for the filter at i.
HandleFor(result, info, i) ==
    /\ result # <<>>
    /\ result[1].context_field = info.filters[i].arg
    /\ result[1].is_multiple = (info.filters[i].op = "OneOf")

\* C17: NeighboringQueryInfo::dynamic_field_value returns a handle only for
\* a tag whose source Vid is at most the starting Vid; filters with a tag
\* from a later Vid are skipped (the handle is for the first filter whose
\* tag is early enough), and without such a filter the result is None.
C17_OnlyTagsAtOrBeforeStart ==
    (hint.call = "dynamic_field_value" /\ hint.view = "Neighboring")
    => LET eligible == { i \in ContextTagFilters(vertex_info) :
                            vertex_info.filters[i].arg.vertex_id <= hint.starting_vertex }
       IN  /\ hint.result # <<>>
                => hint.result[1].context_field.vertex_id <= hint.starting_vertex
           /\ eligible = {} => hint.result = <<>>
           /\ eligible # {} => HandleFor(hint.result, vertex_info, First(eligible))

C17_Witness ==
    /\ hint.call = "dynamic_field_value"
    /\ hint.view = "Neighboring"
    /\ hint.starting_vertex = 2
    /\ vertex_info.filters = <<Equals("f", ContextField(3)), OneOf("g", ContextField(2))>>
    /\ hint.result # <<>>
    /\ hint.result[1].context_field = ContextField(2)

\* C18: dynamic_field_value(field) on the vertex the adapter stands on
\* returns a handle exactly when the vertex has an `=` or `one_of` filter
\* on the named field against a tag, the handle being for the first such
\* filter; tag filters on other fields only give None.
C18_HandleForNamedField ==
    (hint.call = "dynamic_field_value" /\ hint.view = "Local")
    => LET named == { i \in ContextTagFilters(vertex_info) :
                        vertex_info.filters[i].field = hint.field_name }
       IN  /\ named = {} => hint.result = <<>>
           /\ named # {} => HandleFor(hint.result, vertex_info, First(named))

\* C19: dynamic_field_value never returns a handle for a tag of a
\* fold-specific field, on either view; when the vertex has no other tag
\* filter it returns None.
C19_NoHandleForFoldSpecificTag ==
    hint.call = "dynamic_field_value"
    => /\ hint.result # <<>> => hint.result[1].context_field.ref = "ContextField"
       /\ ContextTagFilters(vertex_info) = {} => hint.result = <<>>

C19_Witness ==
    /\ hint.call = "dynamic_field_value"
    /\ hint.view = "Local"
    /\ hint.field_name = "f"
    /\ vertex_info.filters = <<Equals("f", FoldSpecificField)>>
    /\ hint.result = <<>>

\* C20: resolve yields All for every context in which the vertex the tag
\* comes from is not bound, for `=` handles and for `one_of` handles.
C20_UnboundTagResolvesToAll ==
    (hint.call = "resolve" /\ hint.ctx.token = None) => hint.result = All

C20_Witness ==
    /\ hint.call = "resolve"
    /\ hint.ctx.token = None
    /\ hint.self.is_multiple
    /\ hint.result = All

\* C21: when the vertex the tag comes from is bound and the tagged field is
\* Null, resolve yields Single(Null) for an `=` handle and Impossible for a
\* `one_of` handle.
C21_NullOfBoundVertex ==
    (hint.call = "resolve" /\ hint.ctx.token # None /\ hint.value = NULL)
    => hint.result = IF hint.self.is_multiple THEN Impossible ELSE Single(NULL)

C21_Witness ==
    /\ hint.call = "resolve"
    /\ hint.ctx = [value |-> NULL, token |-> "v1"]
    /\ hint.self.is_multiple
    /\ hint.result = Impossible

\* A value that is neither Null nor a list, from a bound vertex.
BadForOneOf(ctx) == ctx.token # None /\ ctx.value.tag \notin {"Null", "List"}

\* C22: the stream resolve returns yields one candidate per input context,
\* in input order and paired with that context; a non-null value v of an
\* `=` tag gives Single(v), a list value of a `one_of` tag Multiple(list),
\* and any other non-null value of a `one_of` tag is fatal.
C22_OneCandidatePerContext ==
    hint.call = "resolve"
    => /\ Len(hint.out) = IF hint.panicked THEN hint.pulled - 1 ELSE hint.pulled
       /\ \A i \in DOMAIN hint.out :
            LET ctx == hint.contexts[i]
                candidate == hint.out[i].candidate
            IN  /\ hint.out[i].ctx = ctx
                /\ (ctx.token # None /\ ctx.value # NULL /\ ~hint.self.is_multiple)
                        => candidate = Single(ctx.value)
                /\ (ctx.token # None /\ ctx.value.tag = "List" /\ hint.self.is_multiple)
                        => candidate = Multiple(ctx.value.v)
                /\ ~(hint.self.is_multiple /\ BadForOneOf(ctx))
       /\ hint.panicked
            => hint.self.is_multiple /\ BadForOneOf(hint.contexts[hint.pulled])

C22_Witness ==
    /\ hint.call = "resolve"
    /\ hint.self.is_multiple
    /\ hint.contexts = <<[value |-> List(<<Int64(3), Int64(4)>>), token |-> "v1"],
                         [value |-> Int64(3), token |-> "v1"]>>
    /\ hint.out = <<[candidate |-> Multiple(<<Int64(3), Int64(4)>>),
                     ctx |-> hint.contexts[1]]>>
    /\ hint.panicked

\* The edges and folds that leave the vertex under the requested name.
NamedEdges(info, edge_name) ==
    { i \in DOMAIN info.edges :
        info.edges[i].from_vid = info.vid /\ info.edges[i].edge_name = edge_name }

\* Those of them that are neither @optional, nor @recurse, nor folds.
RequiredEdges(info, edge_name) ==
    { i \in NamedEdges(info, edge_name) :
        ~(info.edges[i].kind.optional \/ info.edges[i].kind.recursive
            \/ info.edges[i].kind.fold) }

\* Whether a lookup result is the edge at the first of the given positions.
IsFirstOf(result, info, positions) ==
    IF positions = {} THEN result = <<>>
    ELSE result # <<>> /\ result[1].eid = info.edges[First(positions)].eid

\* C23: of the edges and folds of the vertex that share the requested name,
\* first_edge returns the one with the lowest Eid, and first_required_edge
\* the required one with the lowest Eid.
C23_FirstByEid ==
    /\ hint.call = "first_edge"
        => IsFirstOf(hint.result, vertex_info, NamedEdges(vertex_info, hint.edge_name))
    /\ hint.call = "first_required_edge"
        => IsFirstOf(hint.result, vertex_info, RequiredEdges(vertex_info, hint.edge_name))

\* C29: first_required_edge returns only an edge that leaves the vertex,
\* has the requested name and is neither @optional, nor @recurse, nor a
\* fold; when every edge of that name is one of these, it returns None.
C29_RequiredEdgeIsRequired ==
    hint.call = "first_required_edge"
    => /\ hint.result # <<>>
            => /\ \E i \in RequiredEdges(vertex_info, hint.edge_name) :
                        vertex_info.edges[i].eid = hint.result[1].eid
               /\ ~hint.result[1].optional
               /\ ~hint.result[1].recursive
               /\ ~hint.result[1].folded
       /\ RequiredEdges(vertex_info, hint.edge_name) = {} => hint.result = <<>>

C29_Witness ==
    /\ hint.call = "first_required_edge"
    /\ hint.view = "Local"
    /\ hint.edge_name = "e"
    /\ Len(vertex_info.edges) = 3
    /\ \A i \in DOMAIN vertex_info.edges :
            vertex_info.edges[i].from_vid = vertex_info.vid /\ vertex_info.edges[i].edge_name = "e"
    /\ vertex_info.edges[1].kind.optional
    /\ vertex_info.edges[2].kind.fold
    /\ vertex_info.edges[3].kind.recursive
    /\ hint.result = <<>>

\* C35: when first_edge returns a folded edge, no edge of the requested
\* name that is not a fold leaves the vertex, the edge returned is a fold
\* of the vertex with that name, and its EdgeInfo says optional, not
\* recursive and folded.
C35_FoldOnlyWithoutEdge ==
    (hint.call = "first_edge" /\ hint.result # <<>> /\ hint.result[1].folded)
    => /\ \A i \in NamedEdges(vertex_info, hint.edge_name) : vertex_info.edges[i].kind.fold
       /\ \E i \in NamedEdges(vertex_info, hint.edge_name) :
            vertex_info.edges[i].eid = hint.result[1].eid
       /\ hint.result[1].optional
       /\ ~hint.result[1].recursive

\* first_edge returned a fold although an edge of the same name with a lower
\* Eid exists: that edge leaves another vertex.
C35_Witness ==
    /\ hint.call = "first_edge"
    /\ hint.view = "Neighboring"
    /\ hint.result # <<>>
    /\ hint.result[1].folded
    /\ \E i \in DOMAIN vertex_info.edges :
        /\ vertex_info.edges[i].edge_name = hint.edge_name
        /\ vertex_info.edges[i].from_vid # vertex_info.vid
        /\ vertex_info.edges[i].eid < hint.result[1].eid

\* The edge or fold of the query with an Eid.
EdgeOf(eid) ==
    vertex_info.edges[CHOOSE i \in DOMAIN vertex_info.edges : vertex_info.edges[i].eid = eid]

\* C36: the NeighboringQueryInfo a chain of lookups has reached still
\* starts at the vertex of the LocalQueryInfo the chain began with; its
\* neighbor_path has one Eid per lookup made, each the Eid of an edge or
\* fold of the query: the first leaves the starting vertex, every next one
\* leaves the vertex the one before leads to, and neighbor_vertex is where
\* the last one leads.
C36_PathFollowsTheHops ==
    (hint.call # "none" /\ hint.result # <<>>)
    => LET d == hint.result[1].destination
           path == d.neighbor_path
       IN  /\ d.starting_vertex = vertex_info.vid
           /\ Len(path) = hint.hops
           /\ Len(path) >= 1
           /\ \A k \in DOMAIN path :
                \E i \in DOMAIN vertex_info.edges : vertex_info.edges[i].eid = path[k]
           /\ EdgeOf(path[1]).from_vid = vertex_info.vid
           /\ \A k \in 1 .. Len(path) - 1 :
                EdgeOf(path[k + 1]).from_vid = EdgeOf(path[k]).to_vid
           /\ d.neighbor_vertex = EdgeOf(path[Len(path)]).to_vid
           /\ hint.result[1].eid = path[Len(path)]

\* Three lookups in a row, the second over a fold, reached the fourth vertex.
C36_Witness ==
    /\ hint.call = "first_required_edge"
    /\ hint.result # <<>>
    /\ hint.result[1].destination.neighbor_path = <<1, 2, 3>>
    /\ vertex_info.edges[2].kind.fold
    /\ hint.result[1].destination.neighbor_vertex = 4

\* A range candidate: its two endpoints and whether each belongs to it.
Range(start, start_closed, end, end_closed) ==
    [kind |-> "Range", start |-> start, start_closed |-> start_closed,
     end |-> end, end_closed |-> end_closed]

\* C24: for a vertex with the filters f >= 2 and f < 5,
\* static_field_range(f) returns the half-open range [2, 5).
C24_RangeOfTwoBounds ==
    (/\ hint.call = "static_field_range"
     /\ hint.field_name = "f"
     /\ vertex_info.filters = <<GreaterThanOrEqual("f", Variable("lo")),
                                LessThan("f", Variable("hi"))>>
     /\ vertex_info.arguments = [lo |-> Int64(2), hi |-> Int64(5)])
    => ~hint.panicked /\ hint.result = <<Range(Int64(2), TRUE, Int64(5), FALSE)>>

(***************************************************************************)
(* Properties of FieldValue.                                               *)
(***************************************************************************)

\* Whether two payloads of one variant are the same; lists are the same
\* when they have the same values of the same variants in the same order.
RECURSIVE SamePayload(_, _)
SamePayload(a, b) ==
    /\ a.tag = b.tag
    /\ CASE a.tag = "Null" -> TRUE
         [] a.tag = "List" ->
                /\ Len(a.v) = Len(b.v)
                /\ \A i \in DOMAIN a.v : SamePayload(a.v[i], b.v[i])
         [] OTHER -> a.v = b.v

\* C25: two FieldValues of different variants are unequal whatever they
\* hold, Null equals Null, and two values of one variant are equal exactly
\* when they hold the same.
C25_EqualityByVariantAndPayload ==
    hint.call = "eq"
    => /\ ~hint.panicked
       /\ hint.self.tag # hint.other.tag => ~hint.result
       /\ (hint.self = NULL /\ hint.other = NULL) => hint.result
       /\ hint.self.tag = hint.other.tag
            => (hint.result <=> SamePayload(hint.self, hint.other))

C25_Witness ==
    /\ hint.call = "eq"
    /\ hint.self = List(<<Int64(1)>>)
    /\ hint.other = List(<<Uint64(1)>>)
    /\ ~hint.result

FloatAnswer(result, v) ==
    IF is_finite(v) THEN result = Ok(Float64(v))
    ELSE ~result.ok /\ result.e[1] = v

KeepsScalar(result, source) ==
    /\ result.tag = CASE source.ty \in IntTypes -> "Int64"
                      [] source.ty \in UintTypes -> "Uint64"
                      [] source.ty = "bool" -> "Boolean"
                      [] source.ty \in StringTypes -> "String"
    /\ result.v = source.v

\* The same for an optional scalar: Null for None.
KeepsOption(result, source) ==
    IF source.v = <<>> THEN result = NULL ELSE KeepsScalar(result, source.v[1])

KeepsItem(result, source) ==
    IF source.ty = "Option" THEN KeepsOption(result, source) ELSE KeepsScalar(result, source)

\* C28: Into<FieldValue> keeps kind and value: a signed integer becomes
\* Int64, an unsigned one Uint64, a bool Boolean, a string String, each
\* with the same value; None becomes Null and Some(x) what x becomes; a
\* vector becomes a List of what its items become, as many and in order.
C28_IntoKeepsKindAndValue ==
    hint.call = "into"
    => IF hint.source.ty = "Vec"
       THEN /\ hint.result.tag = "List"
            /\ Len(hint.result.v) = Len(hint.source.v)
            /\ \A i \in DOMAIN hint.source.v : KeepsItem(hint.result.v[i], hint.source.v[i])
       ELSE KeepsItem(hint.result, hint.source)

C28_Witness ==
    /\ hint.call = "into"
    /\ hint.source.ty = "Vec"
    /\ Len(hint.source.v) = 2
    /\ \A i \in 1..2 : hint.source.v[i].ty = "u8"
    /\ hint.source.v[1].v = 1
    /\ hint.source.v[2].v = 0
    /\ hint.result = List(<<Uint64(1), Uint64(0)>>)

\* C37: as_i64 of Uint64(u) is Some(u) exactly when u is at most the
\* largest i64, as_u64 of Int64(i) is Some(i) exactly when i is not
\* negative, each accessor returns the number of its own variant as it is,
\* both return None for the other variants, and when both return a number
\* it is the same number.
C37_IntegerAccessorsFit ==
    hint.call = "as_integer"
    => /\ hint.self.tag = "Uint64"
            => /\ hint.u64 = <<hint.self.v>>
               /\ hint.i64 = IF hint.self.v <= 2 ^ (Bits - 1) - 1
                             THEN <<hint.self.v>> ELSE <<>>
       /\ hint.self.tag = "Int64"
            => /\ hint.i64 = <<hint.self.v>>
               /\ hint.u64 = IF hint.self.v >= 0 THEN <<hint.self.v>> ELSE <<>>
       /\ hint.self.tag \notin {"Int64", "Uint64"} => hint.i64 = <<>> /\ hint.u64 = <<>>
       /\ (hint.i64 # <<>> /\ hint.u64 # <<>>) => hint.i64[1] = hint.u64[1]

\* as_i64 gave None for the smallest unsigned number an i64 cannot hold.
C37_Witness ==
    /\ hint.call = "as_integer"
    /\ hint.self.tag = "Uint64"
    /\ hint.self.v = I64_MAX + 1
    /\ hint.i64 = <<>>
    /\ hint.u64 = <<I64_MAX + 1>>

\* Whether a query value is, or holds at any depth, a Binary, Variable or
\* Object value.
RECURSIVE Unsupported(_)
Unsupported(value) ==
    \/ value.tag \in {"Binary", "Variable", "Object"}
    \/ /\ value.tag = "List"
       /\ \E i \in DOMAIN value.v : Unsupported(value.v[i])

\* Whether a FieldValue has every element of a query value, at every depth.
RECURSIVE Whole(_, _)
Whole(field_value, value) ==
    value.tag = "List"
    => /\ field_value.tag = "List"
       /\ Len(field_value.v) = Len(value.v)
       /\ \A i \in DOMAIN value.v : Whole(field_value.v[i], value.v[i])

\* C38: the conversion of a query value fails exactly when the value is or
\* holds, at any depth, a Binary, Variable or Object value; a conversion
\* that succeeds has converted every element of every list.
C38_UnsupportedFailsWhole ==
    hint.call = "FieldValue::try_from(Value)"
    => /\ hint.result.ok <=> ~Unsupported(hint.value)
       /\ hint.result.ok => Whole(hint.result.v, hint.value)

\* A list failed because of the Variable inside its second element, its
\* first element being a list that converts.
C38_Witness ==
    /\ hint.call = "FieldValue::try_from(Value)"
    /\ hint.value.tag = "List"
    /\ Len(hint.value.v) = 2
    /\ hint.value.v[1].tag = "List"
    /\ ~Unsupported(hint.value.v[1])
    /\ hint.value.v[2].tag = "List"
    /\ Unsupported(hint.value.v[2])
    /\ ~hint.result.ok
    /\ hint.result.e = "Cannot use a variable reference"

\* Whether a sequence is made of elements of another, in the same order.
RECURSIVE InOrderOf(_, _)
InOrderOf(stream, ids) ==
    \/ stream = <<>>
    \/ /\ ids # <<>>
       /\ IF Head(stream) = Head(ids) THEN InOrderOf(Tail(stream), Tail(ids))
          ELSE InOrderOf(stream, Tail(ids))

\* C39 as stated: no fetch that fails or finds nothing makes a starting edge fail:
\* Top and LatestStory with max = n give a stream of at most n vertices, in
\* the order of the fetched ids, and User gives one vertex when the user
\* exists and an empty stream otherwise.
C39_FailedFetchLeavesOut ==
    hint.call = "resolve_starting_vertices"
    => /\ (/\ hint.edge_name \in {"Top", "LatestStory"}
           /\ hint.parameter # <<>>
           /\ hint.parameter[1].tag \in {"Int64", "Uint64"}
           /\ hint.parameter[1].v >= 0)
            => /\ ~hint.result.panicked
               /\ Len(hint.result.stream) <= hint.parameter[1].v
               /\ hint.fetch.ok
                    => InOrderOf(hint.result.stream, [i \in DOMAIN hint.fetch.v |-> i])
       /\ hint.edge_name = "User"
            => /\ ~hint.result.panicked
               /\ hint.result.stream = IF hint.outcome = "Some" THEN <<"user">> ELSE <<>>

\* C39: an item that cannot be fetched, or is not there, is left out of the
\* stream: Top and LatestStory with max = n give the vertices of the items
\* that came among the first n fetched ids, in the order of the ids, so at
\* most n; only when the list of ids itself cannot be fetched does the edge
\* panic.  User gives one vertex when the user exists and an empty stream
\* when there is none or the fetch fails.
C39_FailedItemFetchLeavesOut ==
    hint.call = "resolve_starting_vertices"
    => /\ (/\ hint.edge_name \in {"Top", "LatestStory"}
           /\ hint.parameter # <<>>
           /\ hint.parameter[1].tag \in {"Int64", "Uint64"}
           /\ hint.parameter[1].v >= 0)
            => /\ hint.result.panicked <=> ~hint.fetch.ok
               /\ hint.fetch.ok
                    => LET n == hint.parameter[1].v
                           ids == [i \in DOMAIN hint.fetch.v |-> i]
                           stream == hint.result.stream
                       IN  /\ Len(stream) <= n
                           /\ InOrderOf(stream, ids)
                           /\ \A i \in DOMAIN ids :
                                (\E k \in DOMAIN stream : stream[k] = ids[i])
                                    <=> (i <= n /\ hint.fetch.v[i] = "Some")
       /\ hint.edge_name = "User"
            => /\ ~hint.result.panicked
               /\ hint.result.stream = IF hint.outcome = "Some" THEN <<"user">> ELSE <<>>

\* Top with max = 2: of three ids the first failed to load and the second
\* came; the stream is the second alone.
C39_Witness ==
    /\ hint.call = "resolve_starting_vertices"
    /\ hint.edge_name = "Top"
    /\ hint.parameter # <<>>
    /\ hint.parameter[1].tag = "Int64"
    /\ hint.parameter[1].v = 2
    /\ hint.fetch.ok
    /\ hint.fetch.v = <<"Err", "Some", "Some">>
    /\ hint.result = Stream(<<2>>)

====
